---- MODULE Spec2Model ----
(***************************************************************************)
(* A model of demikernel's TCP passive-open engine                         *)
(* (src/rust/inetstack/protocols/layer4/tcp/passive_open.rs): the listener *)
(* loop poll(), handle_new_syn, send_rst, the handshake coroutine          *)
(* send_syn_ack_and_wait_for_ack / wait_for_ack, do_accept and close.      *)
(***************************************************************************)
EXTENDS Integers, Sequences, FiniteSets, TLC

\* ------------------------------------------------------------------ bounds

\* Largest max_backlog a listener is constructed with.
MaxBacklog == 2
\* Largest handshake_retries a TcpConfig holds (TcpConfig::default() has 5).
MaxRetries == 5
\* Number of segments that arrive on the listener's receive queue.
MaxArrivals == 4
\* The same, in the scenarios that vary the shape of one segment.
WideArrivals == 2
\* Largest size of a scatter-gather array, in bytes.
MaxSize == 2
\* Number of addresses of the heap.
MaxBuffers == 3
\* Number of calls into the memory runtime.
MaxCalls == 4
\* Largest reading of the ARP cache's clock.
MaxClock == 3
MaxFutures == 2

\* ------------------------------------------------------------- constants

\* A SeqNumber is a u32, held as its two 16-bit halves <<high, low>>;
\* Half is 2^16.
Half == 65536
\* runtime::network::consts::MAX_WINDOW_SCALE (RFC 1323).
MAX_WINDOW_SCALE == 14

\* Remote endpoints (SocketAddrV4 of the peer): one more than the largest
\* backlog, so that a full backlog can be met by one further remote.
Remotes == 1 .. (MaxBacklog + 1)

\* Option<u8>::None of the WindowScale option.
NoWs == -1

\* ------------------------------------------------------------ SeqNumber

\* SeqNumber::from(n) for n below 2^31.
SeqNumber(n) == <<n \div Half, n % Half>>

\* SeqNumber + SeqNumber::from(n): wrapping addition on u32.
SeqAdd(a, n) ==
    LET low == a[2] + n IN <<(a[1] + (low \div Half)) % Half, low % Half>>

\* The largest SeqNumber, 2^32 - 1.
SeqMax == <<Half - 1, Half - 1>>

\* ------------------------------------------------------------- segments

\* TcpHeader::compute_size as the specification describes the length used
\* by RST synthesis: one for SYN plus one for FIN. It is a method of the
\* header alone: the payload is not among its inputs.
compute_size(hdr) == (IF hdr.syn THEN 1 ELSE 0) + (IF hdr.fin THEN 1 ELSE 0)

\* A segment as it travels through the queues: (Ipv4Addr, TcpHeader,
\* DemiBuffer).  src stands for (ipv4_addr, tcp_hdr.src_port), len for
\* buf.len(), ws for the WindowScale option of the header.
Seg(src, syn, ack, rst, fin, seq_num, ack_num, window_size, ws, len) ==
    [id |-> 0, src |-> src, syn |-> syn, ack |-> ack, rst |-> rst, fin |-> fin,
     seq_num |-> seq_num, ack_num |-> ack_num, window_size |-> window_size,
     ws |-> ws, len |-> len]

\* ---------------------------------------------------------------- state

VARIABLES
    state,          \* PassiveSocket.state: "Listening" or "Closed"
    connections,    \* the remotes that are keys of PassiveSocket.connections
    conn_queue,     \* the per-connection receive queue of each remote
    recv_queue,     \* PassiveSocket.recv_queue
    ready,          \* PassiveSocket.ready
    socket_queue,   \* PassiveSocket.socket_queue
    max_backlog,    \* PassiveSocket.max_backlog
    tcp_config,     \* PassiveSocket.tcp_config
    poll_done,      \* the listener loop poll() has returned
    hs,             \* the handshake coroutine of each remote
    established,    \* the EstablishedSocket of each remote
    rsts,           \* the RST segments handed to the layer-3 endpoint
    env,            \* what the network may deliver: segment and ISN alphabets
    arrived,        \* history: the segments pushed on recv_queue, in order
    accepted,       \* history: the results returned by do_accept, in order
    reads,          \* history: what each control block read from its queue
    spawn_failed,   \* history: ids of the SYNs whose coroutine was refused
    memory,         \* PosixRuntime: the heap of DataBuffers and who holds them
    arp,            \* ArpCache
    descriptor,     \* a TcpConfig descriptor and how it was made
    timer           \* PosixRuntime.timer and the WaitFutures created on it

vars == <<state, connections, conn_queue, recv_queue, ready, socket_queue,
          max_backlog, tcp_config, poll_done, hs, established, rsts, env,
          arrived, accepted, reads, spawn_failed, memory, arp,
          descriptor, timer>>

\* The state of the passive socket and of its coroutines.
tcp_vars == <<state, connections, conn_queue, recv_queue, ready, socket_queue,
              max_backlog, tcp_config, poll_done, hs, established, rsts, env,
              arrived, accepted, reads, spawn_failed>>

\* What no step of the passive socket touches.
outside_tcp == <<memory, arp, descriptor, timer>>

\* --------------------------------------------------------- pure helpers

\* The flag test that looks at syn alone.
ValidSynFlagsSynOnly(hdr) == hdr.syn

\* poll(): a segment of a remote without a map entry starts a connection
\* only with syn set and ack and rst clear.
ValidSynFlags(hdr) == hdr.syn /\ ~hdr.ack /\ ~hdr.rst

\* The backlog check that counts the handshakes in flight alone, as if the
\* entry of an established connection had left the map.
BacklogFullInFlightOnly ==
    Cardinality({ r \in connections : established[r].status # "open" })
        >= max_backlog

\* The backlog check with > for >=: one entry too many is admitted.
BacklogFullOffByOne == Cardinality(connections) > max_backlog

\* handle_new_syn(): the backlog check on connections.len().
BacklogFull == Cardinality(connections) >= max_backlog

\* send_rst() that repeats the acknowledgement number of the incoming
\* segment without adding one.
send_rst_same_ack(remote, tcp_hdr) ==
    IF tcp_hdr.ack
    THEN [dst |-> remote, rst |-> TRUE, seq_num |-> tcp_hdr.ack_num,
          ack |-> TRUE, ack_num |-> tcp_hdr.ack_num]
    ELSE [dst |-> remote, rst |-> TRUE, seq_num |-> SeqNumber(0),
          ack |-> TRUE,
          ack_num |-> SeqAdd(tcp_hdr.seq_num, compute_size(tcp_hdr))]

\* send_rst(): the header of the RST that answers tcp_hdr.  Only the
\* header of the incoming segment is passed in.
send_rst(remote, tcp_hdr) ==
    IF tcp_hdr.ack
    THEN [dst |-> remote, rst |-> TRUE, seq_num |-> tcp_hdr.ack_num,
          ack |-> TRUE, ack_num |-> SeqAdd(tcp_hdr.ack_num, 1)]
    ELSE [dst |-> remote, rst |-> TRUE, seq_num |-> SeqNumber(0),
          ack |-> TRUE,
          ack_num |-> SeqAdd(tcp_hdr.seq_num, compute_size(tcp_hdr))]

\* The check that also wants the ACK flag of the segment.
AckNumOkWithAckFlag(tcp_hdr, local_isn) ==
    tcp_hdr.ack /\ tcp_hdr.ack_num = SeqAdd(local_isn, 1)

\* The check against local_isn itself, the increment forgotten.
AckNumOkNoIncrement(tcp_hdr, local_isn) == tcp_hdr.ack_num = local_isn

\* wait_for_ack(): the check of the acknowledgement number.
AckNumOk(tcp_hdr, local_isn) == tcp_hdr.ack_num = SeqAdd(local_isn, 1)

\* The scales with the local scale taken from the configuration also when
\* the SYN carried no WindowScale option.
WindowScalesLocalKept(remote_window_scale) ==
    IF remote_window_scale # NoWs
    THEN IF remote_window_scale < MAX_WINDOW_SCALE
         THEN <<tcp_config.window_scale, remote_window_scale>>
         ELSE <<tcp_config.window_scale, MAX_WINDOW_SCALE>>
    ELSE <<tcp_config.window_scale, 0>>

\* wait_for_ack(): (local_window_scale, remote_window_scale).
WindowScales(remote_window_scale) ==
    IF remote_window_scale # NoWs
    THEN IF remote_window_scale < MAX_WINDOW_SCALE
         THEN <<tcp_config.window_scale, remote_window_scale>>
         ELSE <<tcp_config.window_scale, MAX_WINDOW_SCALE>>
    ELSE <<0, 0>>

\* (x as u32).checked_shl(n) for a 16-bit x: below 2^32 for every n up to
\* 16, so nothing is shifted out.
Shl32(x, n) == x * (2 ^ n)

\* wait_for_ack(): what the per-connection queue holds once the popped
\* segment has been looked at: a segment with payload is pushed again.
RequeueAck(queue, seg) == IF seg.len > 0 THEN Append(queue, seg) ELSE queue

\* The retry test with > 1 for > 0: the last retry is never used.
RetryAgainOffByOne(handshake_retries) == handshake_retries > 1

\* send_syn_ack_and_wait_for_ack(): on a timeout, whether another SYN+ACK
\* is sent.
RetryAgain(handshake_retries) == handshake_retries > 0

\* ---------------------------------------------------------------- records

\* No handshake coroutine.
NoTask ==
    [pc |-> "none", retries |-> 0, local_isn |-> SeqNumber(0),
     remote_isn |-> SeqNumber(0),
     window_size |-> 0, ws |-> NoWs, synacks |-> 0, syn |-> 0, got |-> 0,
     result |-> "none", left_waiting |-> FALSE]

\* No established socket.
NoSocket ==
    [status |-> "none", accepted |-> FALSE,
     local_window_scale |-> 0, remote_window_scale |-> 0,
     local_window_size |-> 0, remote_window_size |-> 0,
     receiver_seq_no |-> SeqNumber(0), sender_seq_no |-> SeqNumber(0)]

\* An entry of the ready queue: Result<EstablishedSocket, Fail>.  remote
\* names the handshake that pushed it.
Result(kind, remote) == [kind |-> kind, remote |-> remote]

\* ----------------------------------------------------------- the network

\* A segment is pushed on the listener's receive queue by the layer below.
\* id is its position in the arrival history.
Arrive(s) ==
    /\ Len(arrived) < env.arrivals
    /\ LET seg == [s EXCEPT !.id = Len(arrived) + 1] IN
         /\ recv_queue' = Append(recv_queue, seg)
         /\ arrived' = Append(arrived, seg)
    /\ UNCHANGED outside_tcp
    /\ UNCHANGED <<state, connections, conn_queue, ready, socket_queue,
                   max_backlog, tcp_config, poll_done, hs, established, rsts,
                   env, accepted, reads, spawn_failed>>

\* ------------------------------------------------------- the listener loop

ListenerForwardDroppingRst ==
    /\ ~poll_done
    /\ recv_queue # <<>>
    /\ LET seg == Head(recv_queue) IN
         /\ seg.src \in connections
         /\ conn_queue' = IF seg.rst THEN conn_queue
                          ELSE [conn_queue EXCEPT ![seg.src] = Append(@, seg)]
    /\ recv_queue' = Tail(recv_queue)
    /\ UNCHANGED outside_tcp
    /\ UNCHANGED <<state, connections, ready, socket_queue, max_backlog,
                   tcp_config, poll_done, hs, established, rsts, env, arrived,
                   accepted, reads, spawn_failed>>

\* The forwarding of a loop that goes on after it should have returned.
ListenerForwardAfterExit ==
    /\ recv_queue # <<>>
    /\ LET seg == Head(recv_queue) IN
         /\ seg.src \in connections
         /\ conn_queue' = [conn_queue EXCEPT ![seg.src] = Append(@, seg)]
    /\ recv_queue' = Tail(recv_queue)
    /\ UNCHANGED outside_tcp
    /\ UNCHANGED <<state, connections, ready, socket_queue, max_backlog,
                   tcp_config, poll_done, hs, established, rsts, env, arrived,
                   accepted, reads, spawn_failed>>

\* poll(), recv_queue branch: the remote has a map entry, the segment goes
\* to its per-connection queue.
ListenerForward ==
    /\ ~poll_done
    /\ recv_queue # <<>>
    /\ LET seg == Head(recv_queue) IN
         /\ seg.src \in connections
         /\ conn_queue' = [conn_queue EXCEPT ![seg.src] = Append(@, seg)]
    /\ recv_queue' = Tail(recv_queue)
    /\ UNCHANGED outside_tcp
    /\ UNCHANGED <<state, connections, ready, socket_queue, max_backlog,
                   tcp_config, poll_done, hs, established, rsts, env, arrived,
                   accepted, reads, spawn_failed>>

\* poll(), recv_queue branch: no map entry and not a SYN: RST and drop.
ListenerReject ==
    /\ ~poll_done
    /\ recv_queue # <<>>
    /\ LET seg == Head(recv_queue) IN
         /\ seg.src \notin connections
         /\ ~ValidSynFlags(seg)
         /\ rsts' = Append(rsts, [hdr |-> send_rst(seg.src, seg), re |-> seg.id])
    /\ recv_queue' = Tail(recv_queue)
    /\ UNCHANGED outside_tcp
    /\ UNCHANGED <<state, connections, conn_queue, ready, socket_queue,
                   max_backlog, tcp_config, poll_done, hs, established, env,
                   arrived, accepted, reads, spawn_failed>>

\* poll() then handle_new_syn(): a SYN that meets a full backlog: RST.
ListenerBacklogFull ==
    /\ ~poll_done
    /\ recv_queue # <<>>
    /\ LET seg == Head(recv_queue) IN
         /\ seg.src \notin connections
         /\ ValidSynFlags(seg)
         /\ BacklogFull
         /\ rsts' = Append(rsts, [hdr |-> send_rst(seg.src, seg), re |-> seg.id])
    /\ recv_queue' = Tail(recv_queue)
    /\ UNCHANGED outside_tcp
    /\ UNCHANGED <<state, connections, conn_queue, ready, socket_queue,
                   max_backlog, tcp_config, poll_done, hs, established, env,
                   arrived, accepted, reads, spawn_failed>>

\* The handshake coroutine as handle_new_syn() creates it: the options of
\* the SYN are read when it first runs, before the first SYN+ACK.
NewTask(seg, local_isn) ==
    [pc |-> "send", retries |-> tcp_config.handshake_retries,
     local_isn |-> local_isn, remote_isn |-> seg.seq_num,
     window_size |-> seg.window_size, ws |-> seg.ws, synacks |-> 0,
     syn |-> seg.id, got |-> 0, result |-> "none", left_waiting |-> FALSE]

ListenerAdmitQueueingPayload(local_isn) ==
    /\ ~poll_done
    /\ recv_queue # <<>>
    /\ LET seg == Head(recv_queue) IN
         /\ seg.src \notin connections
         /\ ValidSynFlags(seg)
         /\ ~BacklogFull
         /\ hs' = [hs EXCEPT ![seg.src] = NewTask(seg, local_isn)]
         /\ conn_queue' = [conn_queue EXCEPT ![seg.src] =
                              IF seg.len > 0 THEN <<seg>> ELSE <<>>]
         /\ established' = [established EXCEPT ![seg.src] = NoSocket]
         /\ reads' = [reads EXCEPT ![seg.src] = <<>>]
         /\ connections' = connections \cup {seg.src}
    /\ recv_queue' = Tail(recv_queue)
    /\ UNCHANGED outside_tcp
    /\ UNCHANGED <<state, ready, socket_queue, max_backlog, tcp_config,
                   poll_done, rsts, env, arrived, accepted, spawn_failed>>

\* poll() then handle_new_syn(): the SYN is admitted: a fresh
\* per-connection queue, a handshake coroutine, a map entry.  The payload
\* of the SYN goes nowhere.
ListenerAdmit(local_isn) ==
    /\ ~poll_done
    /\ recv_queue # <<>>
    /\ LET seg == Head(recv_queue) IN
         /\ seg.src \notin connections
         /\ ValidSynFlags(seg)
         /\ ~BacklogFull
         /\ hs' = [hs EXCEPT ![seg.src] = NewTask(seg, local_isn)]
         /\ conn_queue' = [conn_queue EXCEPT ![seg.src] = <<>>]
         /\ established' = [established EXCEPT ![seg.src] = NoSocket]
         /\ reads' = [reads EXCEPT ![seg.src] = <<>>]
         /\ connections' = connections \cup {seg.src}
    /\ recv_queue' = Tail(recv_queue)
    /\ UNCHANGED outside_tcp
    /\ UNCHANGED <<state, ready, socket_queue, max_backlog, tcp_config,
                   poll_done, rsts, env, arrived, accepted, spawn_failed>>

\* handle_new_syn() that answers a refused coroutine with a RST.
ListenerSpawnRefusedResetting ==
    /\ ~poll_done
    /\ recv_queue # <<>>
    /\ LET seg == Head(recv_queue) IN
         /\ seg.src \notin connections
         /\ ValidSynFlags(seg)
         /\ ~BacklogFull
         /\ spawn_failed' = spawn_failed \cup {seg.id}
         /\ rsts' = Append(rsts, [hdr |-> send_rst(seg.src, seg), re |-> seg.id])
    /\ recv_queue' = Tail(recv_queue)
    /\ UNCHANGED outside_tcp
    /\ UNCHANGED <<state, connections, conn_queue, ready, socket_queue,
                   max_backlog, tcp_config, poll_done, hs, established, env,
                   arrived, accepted, reads>>

\* handle_new_syn() that inserts the map entry before it asks the scheduler
\* for the coroutine: a refused coroutine leaves an entry behind.
ListenerSpawnRefusedInserting ==
    /\ ~poll_done
    /\ recv_queue # <<>>
    /\ LET seg == Head(recv_queue) IN
         /\ seg.src \notin connections
         /\ ValidSynFlags(seg)
         /\ ~BacklogFull
         /\ spawn_failed' = spawn_failed \cup {seg.id}
         /\ connections' = connections \cup {seg.src}
    /\ recv_queue' = Tail(recv_queue)
    /\ UNCHANGED outside_tcp
    /\ UNCHANGED <<state, conn_queue, ready, socket_queue, max_backlog,
                   tcp_config, poll_done, hs, established, rsts, env, arrived,
                   accepted, reads>>

\* poll() then handle_new_syn(): the scheduler refuses the coroutine.
ListenerSpawnRefused ==
    /\ ~poll_done
    /\ recv_queue # <<>>
    /\ LET seg == Head(recv_queue) IN
         /\ seg.src \notin connections
         /\ ValidSynFlags(seg)
         /\ ~BacklogFull
         /\ spawn_failed' = spawn_failed \cup {seg.id}
    /\ recv_queue' = Tail(recv_queue)
    /\ UNCHANGED outside_tcp
    /\ UNCHANGED <<state, connections, conn_queue, ready, socket_queue,
                   max_backlog, tcp_config, poll_done, hs, established, rsts,
                   env, arrived, accepted, reads>>

\* The socket_queue branch that empties the map instead of removing the one
\* entry of the socket that closed.
ListenerCloseNotificationClearing ==
    /\ ~poll_done
    /\ socket_queue # <<>>
    /\ connections' = {}
    /\ socket_queue' = Tail(socket_queue)
    /\ UNCHANGED outside_tcp
    /\ UNCHANGED <<state, conn_queue, recv_queue, ready, max_backlog,
                   tcp_config, poll_done, hs, established, rsts, env, arrived,
                   accepted, reads, spawn_failed>>

\* poll(), socket_queue branch: an established socket has closed, its map
\* entry is removed.  Without an entry the loop panics (unreachable!).
ListenerCloseNotification ==
    /\ ~poll_done
    /\ socket_queue # <<>>
    /\ LET socket == Head(socket_queue) IN
         IF socket \in connections
         THEN /\ connections' = connections \ {socket}
              /\ poll_done' = poll_done
         ELSE /\ connections' = connections
              /\ poll_done' = TRUE
    /\ socket_queue' = Tail(socket_queue)
    /\ UNCHANGED outside_tcp
    /\ UNCHANGED <<state, conn_queue, recv_queue, ready, max_backlog,
                   tcp_config, hs, established, rsts, env, arrived, accepted,
                   reads, spawn_failed>>

\* poll(), state branch: the loop returns on the change to Closed.
ListenerExit ==
    /\ ~poll_done
    /\ state = "Closed"
    /\ poll_done' = TRUE
    /\ hs' = [r \in Remotes |->
                [hs[r] EXCEPT !.left_waiting =
                    hs[r].pc = "wait" /\ conn_queue[r] = <<>>]]
    /\ UNCHANGED outside_tcp
    /\ UNCHANGED <<state, connections, conn_queue, recv_queue, ready,
                   socket_queue, max_backlog, tcp_config, established,
                   rsts, env, arrived, accepted, reads, spawn_failed>>

\* close()
Close ==
    /\ state = "Listening"
    /\ state' = "Closed"
    /\ UNCHANGED outside_tcp
    /\ UNCHANGED <<connections, conn_queue, recv_queue, ready, socket_queue,
                   max_backlog, tcp_config, poll_done, hs, established, rsts,
                   env, arrived, accepted, reads, spawn_failed>>

\* -------------------------------------------------- the handshake coroutine

\* send_syn_ack(): the SYN+ACK is handed to the layer-3 endpoint, which
\* takes it; the coroutine goes on to wait for the ACK.
SendSynAck(r) ==
    /\ hs[r].pc = "send"
    /\ hs' = [hs EXCEPT ![r].synacks = @ + 1, ![r].pc = "wait"]
    /\ UNCHANGED outside_tcp
    /\ UNCHANGED <<state, connections, conn_queue, recv_queue, ready,
                   socket_queue, max_backlog, tcp_config, poll_done,
                   established, rsts, env, arrived, accepted, reads,
                   spawn_failed>>

\* A failed transmit that is treated as a timeout: the coroutine tries
\* again while retries are left.
SendSynAckFailRetrying(r) ==
    /\ hs[r].pc = "send"
    /\ IF RetryAgain(hs[r].retries)
       THEN /\ hs' = [hs EXCEPT ![r].retries = @ - 1]
            /\ ready' = ready
       ELSE /\ hs' = [hs EXCEPT ![r].pc = "done", ![r].result = "TransmitError"]
            /\ ready' = Append(ready, Result("TransmitError", r))
    /\ UNCHANGED outside_tcp
    /\ UNCHANGED <<state, connections, conn_queue, recv_queue, socket_queue,
                   max_backlog, tcp_config, poll_done, established, rsts, env,
                   arrived, accepted, reads, spawn_failed>>

\* send_syn_ack(): the transmit fails; the error is the handshake's result.
SendSynAckFail(r) ==
    /\ hs[r].pc = "send"
    /\ hs' = [hs EXCEPT ![r].pc = "done", ![r].result = "TransmitError"]
    /\ ready' = Append(ready, Result("TransmitError", r))
    /\ UNCHANGED outside_tcp
    /\ UNCHANGED <<state, connections, conn_queue, recv_queue, socket_queue,
                   max_backlog, tcp_config, poll_done, established, rsts, env,
                   arrived, accepted, reads, spawn_failed>>

\* The timeout branch that returns after the last retry without pushing
\* the Timeout.
HandshakeTimeoutSilent(r) ==
    /\ hs[r].pc = "wait"
    /\ IF RetryAgain(hs[r].retries)
       THEN hs' = [hs EXCEPT ![r].retries = @ - 1, ![r].pc = "send"]
       ELSE hs' = [hs EXCEPT ![r].pc = "done", ![r].result = "Timeout"]
    /\ UNCHANGED outside_tcp
    /\ UNCHANGED <<state, connections, conn_queue, recv_queue, ready,
                   socket_queue, max_backlog, tcp_config, poll_done,
                   established, rsts, env, arrived, accepted, reads,
                   spawn_failed>>

\* conditional_yield_with_timeout() ends with ETIMEDOUT: another round
\* while retries are left, else Timeout is the handshake's result.
HandshakeTimeout(r) ==
    /\ hs[r].pc = "wait"
    /\ IF RetryAgain(hs[r].retries)
       THEN /\ hs' = [hs EXCEPT ![r].retries = @ - 1, ![r].pc = "send"]
            /\ ready' = ready
       ELSE /\ hs' = [hs EXCEPT ![r].pc = "done", ![r].result = "Timeout"]
            /\ ready' = Append(ready, Result("Timeout", r))
    /\ UNCHANGED outside_tcp
    /\ UNCHANGED <<state, connections, conn_queue, recv_queue, socket_queue,
                   max_backlog, tcp_config, poll_done, established, rsts, env,
                   arrived, accepted, reads, spawn_failed>>

\* wait_for_ack(): the popped segment does not acknowledge local_isn + 1.
HandshakeBadAck(r) ==
    /\ hs[r].pc = "wait"
    /\ conn_queue[r] # <<>>
    /\ LET seg == Head(conn_queue[r]) IN
         /\ ~AckNumOk(seg, hs[r].local_isn)
         /\ hs' = [hs EXCEPT ![r].pc = "done", ![r].result = "BadMessage",
                             ![r].got = seg.id]
    /\ conn_queue' = [conn_queue EXCEPT ![r] = Tail(@)]
    /\ ready' = Append(ready, Result("BadMessage", r))
    /\ UNCHANGED outside_tcp
    /\ UNCHANGED <<state, connections, recv_queue, socket_queue, max_backlog,
                   tcp_config, poll_done, established, rsts, env, arrived,
                   accepted, reads, spawn_failed>>

\* The EstablishedSocket wait_for_ack() builds.
NewSocket(task) ==
    LET scales == WindowScales(task.ws) IN
    [status |-> "open", accepted |-> FALSE,
     local_window_scale |-> scales[1], remote_window_scale |-> scales[2],
     local_window_size |-> Shl32(tcp_config.receive_window_size, scales[1]),
     remote_window_size |-> Shl32(task.window_size, scales[2]),
     receiver_seq_no |-> SeqAdd(task.remote_isn, 1),
     sender_seq_no |-> SeqAdd(task.local_isn, 1)]

\* wait_for_ack(): the popped segment acknowledges local_isn + 1: windows
\* are computed, a segment with payload goes back on the queue, the
\* established socket is created and pushed on the ready queue.
HandshakeEstablish(r) ==
    /\ hs[r].pc = "wait"
    /\ conn_queue[r] # <<>>
    /\ LET seg == Head(conn_queue[r]) IN
         /\ AckNumOk(seg, hs[r].local_isn)
         /\ hs' = [hs EXCEPT ![r].pc = "done", ![r].result = "Ok",
                             ![r].got = seg.id]
         /\ conn_queue' = [conn_queue EXCEPT ![r] = RequeueAck(Tail(@), seg)]
    /\ established' = [established EXCEPT ![r] = NewSocket(hs[r])]
    /\ ready' = Append(ready, Result("Ok", r))
    /\ UNCHANGED outside_tcp
    /\ UNCHANGED <<state, connections, recv_queue, socket_queue, max_backlog,
                   tcp_config, poll_done, rsts, env, arrived, accepted, reads,
                   spawn_failed>>

\* wait_for_ack(): as above, but EstablishedSocket::new() fails because the
\* scheduler refuses its background coroutine; the error is the result.
HandshakeEstablishFail(r) ==
    /\ hs[r].pc = "wait"
    /\ conn_queue[r] # <<>>
    /\ LET seg == Head(conn_queue[r]) IN
         /\ AckNumOk(seg, hs[r].local_isn)
         /\ hs' = [hs EXCEPT ![r].pc = "done", ![r].result = "SpawnError",
                             ![r].got = seg.id]
         /\ conn_queue' = [conn_queue EXCEPT ![r] = RequeueAck(Tail(@), seg)]
    /\ ready' = Append(ready, Result("SpawnError", r))
    /\ UNCHANGED outside_tcp
    /\ UNCHANGED <<state, connections, recv_queue, socket_queue, max_backlog,
                   tcp_config, poll_done, established, rsts, env, arrived,
                   accepted, reads, spawn_failed>>

\* ------------------------------------------------------------ the user

\* do_accept() that also takes the remote of a returned socket out of the
\* in-flight map.
AcceptForgetting ==
    /\ ready # <<>>
    /\ LET res == Head(ready) IN
         /\ accepted' = Append(accepted, res)
         /\ established' =
              IF res.kind = "Ok"
              THEN [established EXCEPT ![res.remote].accepted = TRUE]
              ELSE established
         /\ connections' =
              IF res.kind = "Ok" THEN connections \ {res.remote}
              ELSE connections
    /\ ready' = Tail(ready)
    /\ UNCHANGED outside_tcp
    /\ UNCHANGED <<state, conn_queue, recv_queue, socket_queue, max_backlog,
                   tcp_config, poll_done, hs, rsts, env, arrived, reads,
                   spawn_failed>>

\* do_accept() that returns the newest entry of the ready queue.
AcceptNewest ==
    /\ ready # <<>>
    /\ LET res == ready[Len(ready)] IN
         /\ accepted' = Append(accepted, res)
         /\ established' =
              IF res.kind = "Ok"
              THEN [established EXCEPT ![res.remote].accepted = TRUE]
              ELSE established
    /\ ready' = SubSeq(ready, 1, Len(ready) - 1)
    /\ UNCHANGED outside_tcp
    /\ UNCHANGED <<state, connections, conn_queue, recv_queue, socket_queue,
                   max_backlog, tcp_config, poll_done, hs, rsts, env, arrived,
                   reads, spawn_failed>>

\* do_accept(): pops the ready queue; suspended while it is empty.
Accept ==
    /\ ready # <<>>
    /\ LET res == Head(ready) IN
         /\ accepted' = Append(accepted, res)
         /\ established' =
              IF res.kind = "Ok"
              THEN [established EXCEPT ![res.remote].accepted = TRUE]
              ELSE established
    /\ ready' = Tail(ready)
    /\ UNCHANGED outside_tcp
    /\ UNCHANGED <<state, connections, conn_queue, recv_queue, socket_queue,
                   max_backlog, tcp_config, poll_done, hs, rsts, env, arrived,
                   reads, spawn_failed>>

\* --------------------------------------------------- the established socket

\* The control block's background coroutine pops its receive queue, which
\* is the per-connection queue of the handshake.
EstablishedRead(r) ==
    /\ established[r].status = "open"
    /\ conn_queue[r] # <<>>
    /\ reads' = [reads EXCEPT ![r] = Append(@, Head(conn_queue[r]).id)]
    /\ conn_queue' = [conn_queue EXCEPT ![r] = Tail(@)]
    /\ UNCHANGED outside_tcp
    /\ UNCHANGED <<state, connections, recv_queue, ready, socket_queue,
                   max_backlog, tcp_config, poll_done, hs, established, rsts,
                   env, arrived, accepted, spawn_failed>>

\* The accepted socket is closed by its user; once drained, its coroutine
\* tells the listener by pushing the remote on the socket queue.
EstablishedClose(r) ==
    /\ established[r].status = "open"
    /\ established[r].accepted
    /\ established' = [established EXCEPT ![r].status = "closed"]
    /\ socket_queue' = Append(socket_queue, r)
    /\ UNCHANGED outside_tcp
    /\ UNCHANGED <<state, connections, conn_queue, recv_queue, ready,
                   max_backlog, tcp_config, poll_done, hs, rsts, env, arrived,
                   accepted, reads, spawn_failed>>

\* ------------------------------------------- the memory runtime (catnap)

\* Heap addresses, and the values of a byte.
Addrs == 1 .. MaxBuffers
Bytes == {0, 1}

\* An address that holds no DataBuffer.
NoBuffer == [live |-> FALSE, bytes |-> <<>>]

\* DataBuffer::new(size): a heap buffer of size bytes, zeroed.
DataBuffer_new(size) == [live |-> TRUE, bytes |-> [i \in 1 .. size |-> 0]]

\* DataBuffer::from_slice(bytes): a heap buffer with a copy of the bytes.
DataBuffer_from_slice(bytes) == [live |-> TRUE, bytes |-> bytes]

\* demi_sgarray_t with its one demi_sgaseg_t, as alloc_sgarray() builds it.
Sgarray(buf, len) ==
    [sga_numsegs |-> 1, sgaseg_buf |-> buf, sgaseg_len |-> len]

\* No scatter-gather array.
NoSgarray == [sga_numsegs |-> 0, sgaseg_buf |-> 0, sgaseg_len |-> 0]

\* The argument check with > 1 for != 1: an array of no segment passes.
InvalidSgarrayAboveOne(sga) == sga.sga_numsegs > 1

\* free_sgarray(), clone_sgarray(): the check of the arguments.
InvalidSgarray(sga) == sga.sga_numsegs # 1

\* The record of a call: what was passed in and what came back.
Call(op, size, sga, result, buf) ==
    [op |-> op, size |-> size, sga |-> sga, result |-> result, buf |-> buf]

\* The runtime before the first call.
EmptyMemory ==
    [heap |-> [a \in Addrs |-> NoBuffer], sgas |-> {}, bufs |-> {},
     calls |-> 0, last |-> Call("none", 0, NoSgarray, "none", 0)]

\* The scatter-gather arrays a caller may pass: one it was given, with its
\* segment count as it is or overwritten.
UserSgarrays ==
    { [s EXCEPT !.sga_numsegs = n] : s \in memory.sgas, n \in 0 .. 2 }

\* alloc_sgarray(size): the allocator places the buffer at a free address.
alloc_sgarray(size, addr) ==
    /\ memory.calls < MaxCalls
    /\ ~memory.heap[addr].live
    /\ LET sga == Sgarray(addr, size) IN
         memory' = [memory EXCEPT
                      !.heap[addr] = DataBuffer_new(size),
                      !.sgas = @ \cup {sga},
                      !.calls = @ + 1,
                      !.last = Call("alloc_sgarray", size, sga, "Ok", 0)]
    /\ UNCHANGED <<tcp_vars, arp, descriptor, timer>>

\* free_sgarray(sga)
free_sgarray(sga) ==
    /\ memory.calls < MaxCalls
    /\ IF InvalidSgarray(sga)
       THEN memory' = [memory EXCEPT
                         !.calls = @ + 1,
                         !.last = Call("free_sgarray", 0, sga, "EINVAL", 0)]
       ELSE memory' = [memory EXCEPT
                         !.heap[sga.sgaseg_buf] = NoBuffer,
                         !.sgas = { s \in @ : s.sgaseg_buf # sga.sgaseg_buf },
                         !.calls = @ + 1,
                         !.last = Call("free_sgarray", 0, sga, "Ok", 0)]
    /\ UNCHANGED <<tcp_vars, arp, descriptor, timer>>

\* clone_sgarray() that hands out the buffer of the array itself instead of
\* a copy.
clone_sgarray_sharing(sga, addr) ==
    /\ memory.calls < MaxCalls
    /\ IF InvalidSgarray(sga)
       THEN memory' = [memory EXCEPT
                         !.calls = @ + 1,
                         !.last = Call("clone_sgarray", 0, sga, "EINVAL", 0)]
       ELSE memory' = [memory EXCEPT
                         !.bufs = @ \cup {sga.sgaseg_buf},
                         !.calls = @ + 1,
                         !.last = Call("clone_sgarray", 0, sga, "Ok",
                                       sga.sgaseg_buf)]
    /\ UNCHANGED <<tcp_vars, arp, descriptor, timer>>

\* clone_sgarray(&sga): the Buffer it returns is placed at a free address.
clone_sgarray(sga, addr) ==
    /\ memory.calls < MaxCalls
    /\ IF InvalidSgarray(sga)
       THEN memory' = [memory EXCEPT
                         !.calls = @ + 1,
                         !.last = Call("clone_sgarray", 0, sga, "EINVAL", 0)]
       ELSE /\ ~memory.heap[addr].live
            /\ memory' = [memory EXCEPT
                            !.heap[addr] = DataBuffer_from_slice(
                                SubSeq(memory.heap[sga.sgaseg_buf].bytes,
                                       1, sga.sgaseg_len)),
                            !.bufs = @ \cup {addr},
                            !.calls = @ + 1,
                            !.last = Call("clone_sgarray", 0, sga, "Ok", addr)]
    /\ UNCHANGED <<tcp_vars, arp, descriptor, timer>>

\* The caller writes a byte through the pointer of a scatter-gather array
\* it holds.
WriteSgarray(sga, i, byte) ==
    /\ memory.calls < MaxCalls
    /\ sga \in memory.sgas
    /\ i \in 1 .. sga.sgaseg_len
    /\ memory' = [memory EXCEPT
                    !.heap[sga.sgaseg_buf].bytes[i] = byte,
                    !.calls = @ + 1,
                    !.last = Call("write", 0, sga, "Ok", 0)]
    /\ UNCHANGED <<tcp_vars, arp, descriptor, timer>>

\* The caller drops a Buffer that clone_sgarray() returned.
DropBuffer(buf) ==
    /\ memory.calls < MaxCalls
    /\ buf \in memory.bufs
    /\ memory' = [memory EXCEPT
                    !.heap[buf] = NoBuffer,
                    !.bufs = @ \ {buf},
                    !.calls = @ + 1,
                    !.last = Call("drop", 0, NoSgarray, "Ok", buf)]
    /\ UNCHANGED <<tcp_vars, arp, descriptor, timer>>

NextMemory ==
    \/ \E size \in 1 .. MaxSize, addr \in Addrs : alloc_sgarray(size, addr)
    \/ \E sga \in UserSgarrays : free_sgarray(sga)
    \/ \E sga \in UserSgarrays, addr \in Addrs : clone_sgarray(sga, addr)
    \/ \E sga \in memory.sgas, i \in 1 .. MaxSize, byte \in Bytes :
         WriteSgarray(sga, i, byte)
    \/ \E buf \in memory.bufs : DropBuffer(buf)

\* ------------------------------------------------------- the ARP cache

\* IPv4 addresses and link addresses; "no link address" is Option::None.
Ips == {1, 2}
Macs == {1, 2}
NoMac == 0

\* An absent TTL: entries never expire.
NoTtl == -1
Ttls == {NoTtl, 1, 2}

\* No entry for an address.
NoEntry == [mac |-> NoMac, inserted_at |-> 0]

\* What is known of an address from the calls made so far: the link
\* address last imported or inserted and not cleared since, and when.
NotKnown == [how |-> "none", mac |-> NoMac, at |-> 0]

\* The initial maps: every map from some of the addresses to link addresses.
ArpMaps == UNION { [S -> Macs] : S \in SUBSET Ips }

\* The record of a call on the cache.
ArpCall(op, ip, mac, map) == [op |-> op, ip |-> ip, mac |-> mac, map |-> map]

\* An entry that no lapse of time evicts.
NeverExpired(cache, entry) == FALSE

\* An entry is evicted when now - inserted_at > ttl.
Expired(cache, entry) ==
    cache.ttl # NoTtl /\ cache.clock - entry.inserted_at > cache.ttl

\* ArpCache::new() that leaves the initial map aside.
ArpCache_new_empty(now, ttl, values, disable) ==
    [clock |-> now, ttl |-> ttl, disable |-> disable,
     entries |-> [ip \in Ips |-> NoEntry],
     known |-> [ip \in Ips |->
                  IF ip \in DOMAIN values
                  THEN [how |-> "import", mac |-> values[ip], at |-> now]
                  ELSE NotKnown],
     last |-> ArpCall("new", 0, NoMac, <<>>)]

\* ArpCache::new(now, ttl, values, disable): the initial map is imported
\* at the time of construction.
ArpCache_new(now, ttl, values, disable) ==
    [clock |-> now, ttl |-> ttl, disable |-> disable,
     entries |-> [ip \in Ips |->
                    IF ip \in DOMAIN values
                    THEN [mac |-> values[ip], inserted_at |-> now]
                    ELSE NoEntry],
     known |-> [ip \in Ips |->
                  IF ip \in DOMAIN values
                  THEN [how |-> "import", mac |-> values[ip], at |-> now]
                  ELSE NotKnown],
     last |-> ArpCall("new", 0, NoMac, <<>>)]

\* ArpCache::get(ip): None when the cache is disabled, when there is no
\* entry and when the entry has expired.
ArpCache_get(cache, ip) ==
    IF cache.disable THEN NoMac
    ELSE IF cache.entries[ip].mac = NoMac THEN NoMac
    ELSE IF Expired(cache, cache.entries[ip]) THEN NoMac
    ELSE cache.entries[ip].mac

\* ArpCache::export(): the entries that are valid now.
ArpCache_export(cache) ==
    [ip \in { i \in Ips : /\ cache.entries[i].mac # NoMac
                          /\ ~Expired(cache, cache.entries[i]) } |->
        cache.entries[ip].mac]

\* insert(ip, mac): the entry is written with the clock's reading; an
\* existing entry is refreshed.
ArpInsert(ip, mac) ==
    /\ arp' = [arp EXCEPT
                 !.entries[ip] = [mac |-> mac, inserted_at |-> arp.clock],
                 !.known[ip] = [how |-> "insert", mac |-> mac, at |-> arp.clock],
                 !.last = ArpCall("insert", ip, mac, <<>>)]
    /\ UNCHANGED <<tcp_vars, memory, descriptor, timer>>

\* get(ip)
ArpGet(ip) ==
    /\ arp' = [arp EXCEPT
                 !.last = ArpCall("get", ip, ArpCache_get(arp, ip), <<>>)]
    /\ UNCHANGED <<tcp_vars, memory, descriptor, timer>>

\* export()
ArpExport ==
    /\ arp' = [arp EXCEPT
                 !.last = ArpCall("export", 0, NoMac, ArpCache_export(arp))]
    /\ UNCHANGED <<tcp_vars, memory, descriptor, timer>>

\* advance_clock(now), now not before the clock's reading.
ArpAdvanceClock(now) ==
    /\ now > arp.clock
    /\ arp' = [arp EXCEPT
                 !.clock = now,
                 !.last = ArpCall("advance_clock", 0, NoMac, <<>>)]
    /\ UNCHANGED <<tcp_vars, memory, descriptor, timer>>

\* clear(): every entry is removed.
ArpClear ==
    /\ arp' = [arp EXCEPT
                 !.entries = [ip \in Ips |-> NoEntry],
                 !.known = [ip \in Ips |-> NotKnown],
                 !.last = ArpCall("clear", 0, NoMac, <<>>)]
    /\ UNCHANGED <<tcp_vars, memory, descriptor, timer>>

NextArp ==
    \/ \E ip \in Ips, mac \in Macs : ArpInsert(ip, mac)
    \/ \E ip \in Ips : ArpGet(ip)
    \/ ArpExport
    \/ \E now \in 0 .. MaxClock : ArpAdvanceClock(now)
    \/ ArpClear

\* ------------------------------------------- the TCP configuration descriptor
\* runtime/network/config/tcp.rs. The MSS constants live in
\* runtime/network/consts.rs; Durations are counted in milliseconds.

MIN_MSS == 536
MAX_MSS == 65535
DEFAULT_MSS == 1450
TCP_HANDSHAKE_TIMEOUT == 3000
TCP_ACK_DELAY_TIMEOUT == 5

\* Config::mss() and Config::tcp_checksum_offload() are Err when the
\* configuration file does not set the option.
NoMss == -1
NoOffload == "unset"

\* The MSS values a configuration file may carry: below, at and above both
\* bounds, and values strictly inside.
ConfiguredMss ==
    {NoMss, 0, MIN_MSS - 1, MIN_MSS, DEFAULT_MSS, MAX_MSS, MAX_MSS + 1}

ConfiguredOffload == {NoOffload, "true", "false"}

TcpConfig_default_three_retries ==
    [advertised_mss |-> DEFAULT_MSS,
     handshake_retries |-> 3,
     handshake_timeout |-> TCP_HANDSHAKE_TIMEOUT,
     receive_window_size |-> 65535,
     ack_delay_timeout |-> TCP_ACK_DELAY_TIMEOUT,
     window_scale |-> 0,
     rx_checksum_offload |-> FALSE,
     tx_checksum_offload |-> FALSE]

\* impl Default for TcpConfig.
TcpConfig_default ==
    [advertised_mss |-> DEFAULT_MSS,
     handshake_retries |-> 5,
     handshake_timeout |-> TCP_HANDSHAKE_TIMEOUT,
     receive_window_size |-> 65535,
     ack_delay_timeout |-> TCP_ACK_DELAY_TIMEOUT,
     window_scale |-> 0,
     rx_checksum_offload |-> FALSE,
     tx_checksum_offload |-> FALSE]

\* The two assert!s of TcpConfig::new on a configured MSS.
MssAsserts(value) == value >= MIN_MSS /\ value <= MAX_MSS

\* TcpConfig::new: the options it returns when neither assert! fires.
TcpConfig_new(mss, offload) ==
    LET options == TcpConfig_default
        with_mss == IF mss # NoMss
                    THEN [options EXCEPT !.advertised_mss = mss]
                    ELSE options
    IN  IF offload # NoOffload
        THEN [with_mss EXCEPT !.rx_checksum_offload = (offload = "true"),
                              !.tx_checksum_offload = (offload = "true")]
        ELSE with_mss

Getters ==
    {"get_advertised_mss", "get_handshake_retries", "get_handshake_timeout",
     "get_receive_window_size", "get_window_scale", "get_ack_delay_timeout",
     "get_tx_checksum_offload", "get_rx_checksum_offload"}

\* The getters of TcpConfig.
get_advertised_mss(self) == self.advertised_mss
get_handshake_retries(self) == self.handshake_retries
get_handshake_timeout(self) == self.handshake_timeout
get_receive_window_size(self) == self.receive_window_size
get_window_scale(self) == self.window_scale
get_ack_delay_timeout(self) == self.ack_delay_timeout
get_tx_checksum_offload(self) == self.tx_checksum_offload
get_rx_checksum_offload(self) == self.rx_checksum_offload

\* The getter of that name applied to a descriptor.
CallGetter(name, self) ==
    CASE name = "get_advertised_mss" -> get_advertised_mss(self)
      [] name = "get_handshake_retries" -> get_handshake_retries(self)
      [] name = "get_handshake_timeout" -> get_handshake_timeout(self)
      [] name = "get_receive_window_size" -> get_receive_window_size(self)
      [] name = "get_window_scale" -> get_window_scale(self)
      [] name = "get_ack_delay_timeout" -> get_ack_delay_timeout(self)
      [] name = "get_tx_checksum_offload" -> get_tx_checksum_offload(self)
      [] name = "get_rx_checksum_offload" -> get_rx_checksum_offload(self)

NoGetter == [name |-> "none", value |-> 0]

\* A descriptor as the program holds it: the options, how they were made
\* (and from which configured values), whether the constructor returned or
\* panicked, and the last getter called on it with what it returned.
ConfigState(options, how, status, mss, offload) ==
    [options |-> options, how |-> how, status |-> status, mss |-> mss,
     offload |-> offload, last |-> NoGetter]

DefaultConfig ==
    ConfigState(TcpConfig_default, "default", "Ok", NoMss, NoOffload)

\* TcpConfig::default().
ConfigDefault ==
    /\ descriptor.how # "default" \/ descriptor.last.name # "none"
    /\ descriptor' = DefaultConfig
    /\ UNCHANGED <<tcp_vars, memory, arp, timer>>

\* TcpConfig::new(config) where assert!(value >= MIN_MSS) or
\* assert!(value <= MAX_MSS) fires: the thread panics, no descriptor exists.
ConfigNewPanic(mss, offload) ==
    /\ mss # NoMss
    /\ ~MssAsserts(mss)
    /\ descriptor' = ConfigState(TcpConfig_default, "new", "panic", mss, offload)
    /\ UNCHANGED <<tcp_vars, memory, arp, timer>>

\* TcpConfig::new(config) returning Ok(options).
ConfigNew(mss, offload) ==
    /\ mss # NoMss => MssAsserts(mss)
    /\ descriptor' = ConfigState(TcpConfig_new(mss, offload), "new", "Ok", mss,
                             offload)
    /\ UNCHANGED <<tcp_vars, memory, arp, timer>>

\* A getter called on the descriptor.
ConfigGet(name) ==
    /\ descriptor.status = "Ok"
    /\ descriptor' = [descriptor EXCEPT !.last = [name |-> name,
                                          value |-> CallGetter(name,
                                                        descriptor.options)]]
    /\ UNCHANGED <<tcp_vars, memory, arp, timer>>

NextConfig ==
    \/ ConfigDefault
    \/ \E mss \in ConfiguredMss, offload \in ConfiguredOffload :
         ConfigNewPanic(mss, offload)
    \/ \E mss \in ConfiguredMss, offload \in ConfiguredOffload :
         ConfigNew(mss, offload)
    \/ \E name \in Getters : ConfigGet(name)

\* ------------------------------------------------- the runtime timer (catnap)
\* catnap/runtime.rs, impl SchedulerRuntime for PosixRuntime: wait,
\* wait_until, now, advance_clock. Instants and Durations are whole ticks.

Durations == 0 .. 2
Instants == 0 .. MaxClock

\* A WaitFuture: which call made it, the clock when it was made, the call's
\* argument, its deadline, whether a poll found it pending, whether a poll
\* completed it.
WaitFuture(via, at, arg, deadline) ==
    [via |-> via, at |-> at, arg |-> arg, deadline |-> deadline,
     polled |-> FALSE, done |-> FALSE]

\* PosixRuntime::new(now): Timer::new(now), no future yet.
Timer_new(now) == [now |-> now, futures |-> <<>>]

NewTimer == Timer_new(0)

wait_deadline_without_now(now, duration) == duration

\* The instant that wait hands to Timer::wait_until.
wait_deadline(now, duration) == now + duration

\* PosixRuntime::wait(duration).
TimerWait(duration) ==
    /\ Len(timer.futures) < MaxFutures
    /\ wait_deadline(timer.now, duration) <= MaxClock
    /\ timer' = [timer EXCEPT !.futures =
                    Append(@, WaitFuture("wait", timer.now, duration,
                                         wait_deadline(timer.now, duration)))]
    /\ UNCHANGED <<tcp_vars, memory, arp, descriptor>>

\* PosixRuntime::wait_until(when).
TimerWaitUntil(when) ==
    /\ Len(timer.futures) < MaxFutures
    /\ timer' = [timer EXCEPT !.futures =
                    Append(@, WaitFuture("wait_until", timer.now, when, when))]
    /\ UNCHANGED <<tcp_vars, memory, arp, descriptor>>

\* PosixRuntime::advance_clock(now), to a time not earlier than the clock.
TimerAdvanceClock(now) ==
    /\ now >= timer.now
    /\ timer' = [timer EXCEPT !.now = now]
    /\ UNCHANGED <<tcp_vars, memory, arp, descriptor>>

\* A poll of the i-th future before its deadline: Pending.
TimerPollPending(i) ==
    /\ i \in 1 .. Len(timer.futures)
    /\ ~timer.futures[i].done
    /\ timer.now < timer.futures[i].deadline
    /\ timer' = [timer EXCEPT !.futures[i].polled = TRUE]
    /\ UNCHANGED <<tcp_vars, memory, arp, descriptor>>

\* A poll of the i-th future at or after its deadline: Ready.
TimerPollReady(i) ==
    /\ i \in 1 .. Len(timer.futures)
    /\ ~timer.futures[i].done
    /\ timer.now >= timer.futures[i].deadline
    /\ timer' = [timer EXCEPT !.futures[i].done = TRUE]
    /\ UNCHANGED <<tcp_vars, memory, arp, descriptor>>

\* The future is dropped by the task that awaited it.
TimerDrop ==
    /\ timer.futures # <<>>
    /\ Head(timer.futures).done
    /\ timer' = [timer EXCEPT !.futures = Tail(@)]
    /\ UNCHANGED <<tcp_vars, memory, arp, descriptor>>

NextTimer ==
    \/ \E duration \in Durations : TimerWait(duration)
    \/ \E when \in Instants : TimerWaitUntil(when)
    \/ \E now \in Instants : TimerAdvanceClock(now)
    \/ \E i \in 1 .. MaxFutures : TimerPollPending(i)
    \/ \E i \in 1 .. MaxFutures : TimerPollReady(i)
    \/ TimerDrop

\* ---------------------------------------------------------- specification

Next ==
    \/ \E s \in env.pool : Arrive(s)
    \/ ListenerForward
    \/ ListenerReject
    \/ ListenerBacklogFull
    \/ \E i \in env.isns : ListenerAdmit(i)
    \/ ListenerSpawnRefused
    \/ ListenerCloseNotification
    \/ ListenerExit
    \/ Close
    \/ \E r \in Remotes : SendSynAck(r)
    \/ \E r \in Remotes : SendSynAckFail(r)
    \/ \E r \in Remotes : HandshakeTimeout(r)
    \/ \E r \in Remotes : HandshakeBadAck(r)
    \/ \E r \in Remotes : HandshakeEstablish(r)
    \/ \E r \in Remotes : HandshakeEstablishFail(r)
    \/ Accept
    \/ \E r \in Remotes : EstablishedRead(r)
    \/ \E r \in Remotes : EstablishedClose(r)

\* The segments a peer sends in a passive open: its SYN, the ACK of the
\* SYN+ACK (right or wrong acknowledgement number, with or without
\* payload) and a data segment that follows.
PeerSegments(r, local_isn) ==
    LET syn == SeqNumber(1000)
        acked == SeqAdd(local_isn, 1)
    IN  { Seg(r, TRUE, FALSE, FALSE, FALSE, syn, SeqNumber(0), 16384, NoWs, 0),
          Seg(r, FALSE, TRUE, FALSE, FALSE, SeqAdd(syn, 1), acked, 16384, NoWs, 0),
          Seg(r, FALSE, TRUE, FALSE, FALSE, SeqAdd(syn, 1), acked, 16384, NoWs, 1),
          Seg(r, FALSE, TRUE, FALSE, FALSE, SeqAdd(syn, 1), SeqAdd(acked, 1), 16384, NoWs, 0),
          Seg(r, FALSE, TRUE, FALSE, FALSE, SeqAdd(syn, 2), acked, 16384, NoWs, 1) }

\* The listener after SharedPassiveSocket::new(), for a given backlog,
\* configuration and network.
InitListener(backlog, config, network) ==
    /\ state = "Listening"
    /\ connections = {}
    /\ conn_queue = [r \in Remotes |-> <<>>]
    /\ recv_queue = <<>>
    /\ ready = <<>>
    /\ socket_queue = <<>>
    /\ max_backlog = backlog
    /\ tcp_config = config
    /\ poll_done = FALSE
    /\ hs = [r \in Remotes |-> NoTask]
    /\ established = [r \in Remotes |-> NoSocket]
    /\ rsts = <<>>
    /\ env = network
    /\ arrived = <<>>
    /\ accepted = <<>>
    /\ reads = [r \in Remotes |-> <<>>]
    /\ spawn_failed = {}

\* The same, beside a runtime that has allocated nothing and an ARP cache
\* without entries.
InitWith(backlog, config, network) ==
    /\ InitListener(backlog, config, network)
    /\ memory = EmptyMemory
    /\ arp = ArpCache_new(0, NoTtl, <<>>, FALSE)
    /\ descriptor = DefaultConfig
    /\ timer = NewTimer

\* TcpConfig::default(), with handshake_retries and window_scale left open:
\* they are fields of the configuration the listener is constructed with.
Config(retries, scale) ==
    [handshake_retries |-> retries, window_scale |-> scale,
     receive_window_size |-> 65535]

\* The network of a scenario: the segments that may arrive, the ISNs the
\* generator may produce, and how many segments arrive.
Network(pool, isns, arrivals) ==
    [pool |-> pool, isns |-> isns, arrivals |-> arrivals]

\* The peers' SYN, of every remote.
PeerSyns == { s \in UNION { PeerSegments(r, SeqNumber(5)) : r \in Remotes } : s.syn }

\* Scenarios about the backlog: each of MaxBacklog + 1 remotes sends its
\* SYN, and no ACK arrives; the backlog is none, one, or all but one of the
\* remotes.
InitBacklog ==
    \E backlog \in {0, 1, MaxBacklog} :
        InitWith(backlog, Config(0, 0),
                 Network(PeerSyns, {SeqNumber(5)}, MaxBacklog + 1))

\* Scenarios about an entry that comes and goes under a backlog of one: the
\* first remote may complete its handshake, the second sends its SYN.
InitChurn ==
    InitWith(1, Config(0, 0),
             Network({ s \in PeerSyns : s.src <= 2 }
                       \cup { s \in PeerSegments(1, SeqNumber(5)) :
                                s.ack /\ s.len = 0 /\ s.ack_num = SeqNumber(6) },
                     {SeqNumber(5)}, MaxArrivals))

\* Scenarios about one handshake: one remote sends any of a peer's segments.
InitPeer ==
    \E backlog \in 0 .. 1 :
        InitWith(backlog, Config(0, 0),
                 Network(PeerSegments(1, SeqNumber(5)), {SeqNumber(5)}, MaxArrivals))

\* The ACK of a peer that carries payload and acknowledges local_isn + 1.
PeerAckWithPayload(r, local_isn) ==
    { s \in PeerSegments(r, local_isn) :
        s.ack /\ s.len > 0 /\ s.seq_num = SeqNumber(1001) }

\* Scenarios about retries: one remote sends its SYN and may acknowledge
\* the SYN+ACK, for every number of retries.
InitRetry ==
    \E backlog \in 0 .. 1, retries \in 0 .. MaxRetries :
        InitWith(backlog, Config(retries, 0),
                 Network({ s \in PeerSyns : s.src = 1 }
                           \cup PeerAckWithPayload(1, SeqNumber(5)),
                         {SeqNumber(5)}, MaxArrivals - 1))

\* Segments of the first remote with every combination of the four flags,
\* with and without payload.
WideSegments ==
    { Seg(1, syn, ack, rst, fin, seq_num, ack_num, 16384, NoWs, len) :
        syn \in BOOLEAN, ack \in BOOLEAN, rst \in BOOLEAN, fin \in BOOLEAN,
        seq_num \in {SeqNumber(1000), SeqMax},
        ack_num \in {SeqNumber(0), SeqNumber(6), SeqMax},
        len \in 0 .. 1 }

\* Scenarios about single segments: one remote sends its SYN and one
\* further segment of any shape, in either order.
InitWide ==
    \E backlog \in 0 .. 1, x \in WideSegments :
        InitWith(backlog, Config(0, 0),
                 Network({ s \in PeerSyns : s.src = 1 } \cup {x},
                         {SeqNumber(5), SeqMax}, WideArrivals))

\* WindowScale options and window sizes of a SYN.
SynWindowScales == {NoWs, 0, 13, 14, 15, 20, 255}
SynWindowSizes == {0, 16384, 65535}
\* Values of TcpConfig.window_scale.
ConfigWindowScales == {0, 7, 14}

\* Scenarios about window scaling: one remote sends a SYN with or without
\* a WindowScale option and acknowledges the SYN+ACK.
InitScale ==
    \E backlog \in 0 .. 1, scale \in ConfigWindowScales,
       ws \in SynWindowScales, window_size \in SynWindowSizes :
        InitWith(backlog, Config(0, scale),
                 Network({ Seg(1, TRUE, FALSE, FALSE, FALSE, SeqNumber(1000),
                               SeqNumber(0), window_size, ws, 0) }
                           \cup PeerAckWithPayload(1, SeqNumber(5)),
                         {SeqNumber(5)}, WideArrivals))

\* Scenarios about a connection that closes beside another: two remotes
\* send their SYN and the first may acknowledge its SYN+ACK.
InitClose ==
    \E backlog \in 1 .. MaxBacklog :
        InitWith(backlog, Config(0, 0),
                 Network({ s \in PeerSyns : s.src <= 2 }
                           \cup { s \in PeerSegments(1, SeqNumber(5)) :
                                    s.ack /\ s.len = 0 /\ s.ack_num = SeqNumber(6) },
                         {SeqNumber(5)}, MaxArrivals - 1))

\* The SYN of a peer that carries payload.
SynWithPayload(r) ==
    Seg(r, TRUE, FALSE, FALSE, FALSE, SeqNumber(1000), SeqNumber(0), 16384,
        NoWs, 1)

\* Scenarios about a SYN with data: one remote sends a SYN that carries
\* payload and acknowledges the SYN+ACK, with or without payload.
InitSynData ==
    \E backlog \in 0 .. 1 :
        InitWith(backlog, Config(0, 0),
                 Network({SynWithPayload(1)}
                           \cup { s \in PeerSegments(1, SeqNumber(5)) :
                                    s.ack /\ s.ack_num = SeqNumber(6)
                                          /\ s.seq_num = SeqNumber(1001) },
                         {SeqNumber(5)}, MaxArrivals - 1))

\* The memory runtime after PosixRuntime::new(), beside a listener to which
\* nothing arrives.
InitMemory == InitWith(0, Config(0, 0), Network({}, {}, 0))

\* An ARP cache after ArpCache::new(), for every time of construction, TTL,
\* initial map and disable flag.
InitArp ==
    /\ InitListener(0, Config(0, 0), Network({}, {}, 0))
    /\ memory = EmptyMemory
    /\ descriptor = DefaultConfig
    /\ timer = NewTimer
    /\ \E now \in 0 .. 1, ttl \in Ttls, values \in ArpMaps, disable \in BOOLEAN :
         arp = ArpCache_new(now, ttl, values, disable)

\* A descriptor made by TcpConfig::default().
InitConfig == InitWith(0, Config(0, 0), Network({}, {}, 0))

\* A runtime made by PosixRuntime::new(now), for two start times.
InitTimer ==
    /\ InitListener(0, Config(0, 0), Network({}, {}, 0))
    /\ memory = EmptyMemory
    /\ arp = ArpCache_new(0, NoTtl, <<>>, FALSE)
    /\ descriptor = DefaultConfig
    /\ \E now \in 0 .. 1 : timer = Timer_new(now)

Init ==
    \/ InitBacklog \/ InitChurn \/ InitPeer \/ InitRetry \/ InitWide
    \/ InitScale \/ InitClose

\* A step of the handshake coroutine of remote r.
HandshakeStep(r) ==
    \/ SendSynAck(r)
    \/ SendSynAckFail(r)
    \/ HandshakeTimeout(r)
    \/ HandshakeBadAck(r)
    \/ HandshakeEstablish(r)
    \/ HandshakeEstablishFail(r)

\* The scheduler polls every coroutine again and again, the layer-3 endpoint
\* completes a blocking transmit, and the handshake timer runs.
Fairness == \A r \in Remotes : WF_vars(HandshakeStep(r))

\* The listener loop is polled again and again, and its select takes each
\* ready source in turn: a pending close notification is served.
ListenerFairness == WF_vars(ListenerCloseNotification)

Spec == Init /\ [][Next]_vars

SpecBacklog == (InitBacklog \/ InitChurn) /\ [][Next]_vars
SpecChurn == InitChurn /\ [][Next]_vars
SpecPeer == InitPeer /\ [][Next]_vars
SpecRetry == InitRetry /\ [][Next]_vars /\ Fairness
SpecWide == InitWide /\ [][Next]_vars
SpecScale == InitScale /\ [][Next]_vars
SpecHandshake == (InitPeer \/ InitWide) /\ [][Next]_vars
SpecClose == InitClose /\ [][Next]_vars /\ ListenerFairness
SpecForward == (InitWide \/ InitClose) /\ [][Next]_vars
SpecSynData == InitSynData /\ [][Next]_vars
SpecMemory == InitMemory /\ [][NextMemory]_vars
SpecArp == InitArp /\ [][NextArp]_vars
SpecConfig == InitConfig /\ [][NextConfig]_vars
SpecTimer == InitTimer /\ [][NextTimer]_vars

\* ================================================================ claims

\* The segment an RST of the log answers.
RstCause(i) == arrived[rsts[i].re]

\* C1: in every reachable state the number of entries of the in-flight map
\* (connections) is at most max_backlog.
BacklogBound == Cardinality(connections) <= max_backlog

\* C1 witness: the map is full with MaxBacklog entries and a further valid
\* SYN has been answered with a RST.
BacklogBoundWitness ==
    /\ max_backlog = MaxBacklog
    /\ Cardinality(connections) = max_backlog
    /\ \E i \in 1 .. Len(rsts) : ValidSynFlags(RstCause(i))

\* The scenario of C2: max_backlog + 1 segments have arrived, all of them
\* valid SYNs of distinct remotes, and the listener has taken them all.
BacklogScenario ==
    /\ Len(arrived) = max_backlog + 1
    /\ recv_queue = <<>>
    /\ \A i \in 1 .. Len(arrived) : ValidSynFlags(arrived[i])
    /\ \A i, j \in 1 .. Len(arrived) : arrived[i].src = arrived[j].src => i = j

\* The outcome C2 states: the first max_backlog remotes are in the map and
\* the only RST went to the last remote.
BacklogOutcome ==
    /\ connections = { arrived[i].src : i \in 1 .. max_backlog }
    /\ Len(rsts) = 1
    /\ rsts[1].hdr.rst
    /\ rsts[1].hdr.dst = arrived[max_backlog + 1].src

Results == { ready[i] : i \in 1 .. Len(ready) } \cup
           { accepted[i] : i \in 1 .. Len(accepted) }

\* The counting part of C3: a coroutine never emits more than
\* handshake_retries + 1 SYN+ACKs; Timeout is its result only after exactly
\* that many, it has then terminated and the Timeout is on the ready queue
\* (or already accepted); a coroutine that terminated without ever having
\* popped a segment and without a failed transmit has Timeout as result.
HandshakeRetryCount ==
    \A r \in Remotes :
        LET task == hs[r] IN
        /\ task.synacks <= tcp_config.handshake_retries + 1
        /\ task.result = "Timeout" =>
             /\ task.synacks = tcp_config.handshake_retries + 1
             /\ task.pc = "done"
             /\ Result("Timeout", r) \in Results
        /\ (task.pc = "done" /\ task.got = 0 /\ task.result # "TransmitError") =>
             task.result = "Timeout"

\* C3: a handshake with handshake_retries = r whose peer never sends a
\* segment, every transmit succeeding, emits exactly r + 1 SYN+ACKs, then
\* pushes Timeout on the ready queue and terminates, never after fewer
\* emissions; under fair scheduling every spawned coroutine terminates.
HandshakeRetry ==
    /\ []HandshakeRetryCount
    /\ \A r \in Remotes : (hs[r].pc \in {"send", "wait"}) ~> (hs[r].pc = "done")

\* C3 witness: with the largest number of retries, a coroutine that never
\* popped a segment ended with Timeout after MaxRetries + 1 SYN+ACKs.
HandshakeRetryWitness ==
    \E r \in Remotes :
        /\ tcp_config.handshake_retries = MaxRetries
        /\ hs[r].result = "Timeout"
        /\ hs[r].got = 0
        /\ hs[r].synacks = MaxRetries + 1
        /\ conn_queue[r] = <<>>

\* The listener takes the head of its receive queue in this step.
ListenerTakes == recv_queue # <<>> /\ recv_queue' = Tail(recv_queue)

\* rsts' is rsts with one RST more, addressed to remote.
OneRstTo(remote) ==
    /\ Len(rsts') = Len(rsts) + 1
    /\ SubSeq(rsts', 1, Len(rsts)) = rsts
    /\ rsts'[Len(rsts')].hdr.rst
    /\ rsts'[Len(rsts')].hdr.dst = remote

\* C4: when the listener takes a segment of a remote that has no map
\* entry, a map entry or a handshake coroutine appears only if the segment
\* has syn set and ack and rst clear; for every other combination of flags
\* exactly one RST goes to that remote and the map, the coroutines and the
\* per-connection queues stay as they are.
FlagCheck ==
    [][ (ListenerTakes /\ Head(recv_queue).src \notin connections) =>
          LET seg == Head(recv_queue) IN
          /\ (connections' # connections \/ hs' # hs) =>
               (seg.syn /\ ~seg.ack /\ ~seg.rst)
          /\ ~(seg.syn /\ ~seg.ack /\ ~seg.rst) =>
               /\ OneRstTo(seg.src)
               /\ connections' = connections
               /\ hs' = hs
               /\ conn_queue' = conn_queue ]_vars

\* C4 witness: a segment with syn and ack both set, of a remote without a
\* map entry, has been answered with a RST, and a SYN has been admitted.
FlagCheckWitness ==
    /\ \E i \in 1 .. Len(rsts) : RstCause(i).syn /\ RstCause(i).ack /\ ~RstCause(i).rst
    /\ connections # {}

\* a + 1 on u32, by cases on the halves.
Succ32(a) ==
    IF a[2] < Half - 1 THEN <<a[1], a[2] + 1>>
    ELSE IF a[1] < Half - 1 THEN <<a[1] + 1, 0>>
    ELSE <<0, 0>>

\* C5: every RST that answers a segment with the ack flag set and
\* ack_num = A has rst set, seq = A, ack set and ack_num = (A + 1) mod 2^32.
RstOnAck ==
    \A i \in 1 .. Len(rsts) :
        RstCause(i).ack =>
            /\ rsts[i].hdr.rst
            /\ rsts[i].hdr.seq_num = RstCause(i).ack_num
            /\ rsts[i].hdr.ack
            /\ rsts[i].hdr.ack_num = Succ32(RstCause(i).ack_num)

\* C5 witness: a RST answers a segment with the ack flag set whose ack_num
\* is 2^32 - 1, so the RST's ack_num has wrapped to 0.
RstOnAckWitness ==
    \E i \in 1 .. Len(rsts) :
        /\ RstCause(i).ack
        /\ RstCause(i).ack_num = SeqMax
        /\ rsts[i].hdr.ack_num = SeqNumber(0)

\* The segment length of RFC 793: the payload, plus one for SYN, plus one
\* for FIN.
SegmentLength(seg) ==
    seg.len + (IF seg.syn THEN 1 ELSE 0) + (IF seg.fin THEN 1 ELSE 0)

\* C6: every RST that answers a segment with the ack flag clear has seq = 0,
\* ack set and ack_num = (seq_num + segment length) mod 2^32, the segment
\* length being the payload length plus one for SYN and one for FIN.
RstOnNoAck ==
    \A i \in 1 .. Len(rsts) :
        ~RstCause(i).ack =>
            /\ rsts[i].hdr.rst
            /\ rsts[i].hdr.seq_num = SeqNumber(0)
            /\ rsts[i].hdr.ack
            /\ rsts[i].hdr.ack_num =
                 SeqAdd(RstCause(i).seq_num, SegmentLength(RstCause(i)))

\* The segment the handshake coroutine of r popped from its queue.
Popped(r) == arrived[hs[r].got]

\* C7, in every state: a coroutine that popped a segment whose ack_num is
\* not (local_isn + 1) mod 2^32 has BadMessage as result and has
\* terminated, no established socket exists for its remote, and the
\* BadMessage is on the ready queue or has been returned by do_accept.
BadAckOutcome ==
    \A r \in Remotes :
        (hs[r].got # 0 /\ Popped(r).ack_num # Succ32(hs[r].local_isn)) =>
            /\ hs[r].result = "BadMessage"
            /\ hs[r].pc = "done"
            /\ established[r].status = "none"
            /\ Result("BadMessage", r) \in Results

\* C7: a handshake coroutine that receives a segment whose ack_num differs
\* from (local_isn + 1) mod 2^32 pushes BadMessage on the ready queue,
\* creates no established socket and terminates; from then on it sends no
\* SYN+ACK and takes no step, and do_accept yields the BadMessage.
BadAck ==
    /\ []BadAckOutcome
    /\ [][ \A r \in Remotes :
             hs[r].result = "BadMessage" =>
                 /\ hs'[r] = hs[r]
                 /\ established'[r] = established[r] ]_vars

\* C7 witness: the ACK of scenario S4 (ack_num = local_isn + 2) was popped by
\* the coroutine and do_accept has returned the BadMessage.
BadAckWitness ==
    \E r \in Remotes :
        /\ hs[r].got # 0
        /\ Popped(r).ack
        /\ Popped(r).ack_num = SeqAdd(hs[r].local_isn, 2)
        /\ hs[r].synacks = 1
        /\ \E i \in 1 .. Len(accepted) : accepted[i] = Result("BadMessage", r)

\* The smaller of two numbers.
Min(a, b) == IF a < b THEN a ELSE b

\* The SYN that started the handshake of r.
SynOf(r) == arrived[hs[r].syn]

\* C8: for every established socket the handshake produced: when the SYN
\* carried WindowScale = w, the remote scale is min(w, 14) and the remote
\* window is the SYN's window_size shifted left by it; when the SYN carried
\* no WindowScale option, both scales are 0 and both windows are unscaled,
\* whatever TcpConfig.window_scale is.
WindowScaling ==
    \A r \in Remotes :
        established[r].status # "none" =>
            IF SynOf(r).ws # NoWs
            THEN /\ established[r].remote_window_scale =
                      Min(SynOf(r).ws, MAX_WINDOW_SCALE)
                 /\ established[r].remote_window_size =
                      SynOf(r).window_size * (2 ^ Min(SynOf(r).ws, MAX_WINDOW_SCALE))
            ELSE /\ established[r].remote_window_scale = 0
                 /\ established[r].local_window_scale = 0
                 /\ established[r].remote_window_size = SynOf(r).window_size
                 /\ established[r].local_window_size =
                      tcp_config.receive_window_size

\* C8 witness: scenario S5: the SYN carried WindowScale = 20 and
\* window_size = 0x4000, and the established socket's remote window is
\* 0x4000 << 14 = 0x10000000.
WindowScalingWitness ==
    \E r \in Remotes :
        /\ established[r].status = "open"
        /\ SynOf(r).ws = 20
        /\ SynOf(r).window_size = 16384
        /\ established[r].remote_window_scale = 14
        /\ established[r].remote_window_size = 268435456

\* What the control block of r has read, followed by what its queue holds
\* for it to read next, as positions in the arrival history.
Observed(r) ==
    reads[r] \o [i \in 1 .. Len(conn_queue[r]) |-> conn_queue[r][i].id]

\* C9: for every remote, the segments its established control block reads
\* from the per-connection queue (those read, then those queued for it) are
\* in the order in which they arrived on the listener's receive queue.
ArrivalOrder ==
    \A r \in Remotes :
        established[r].status = "open" =>
            \A i, j \in 1 .. Len(Observed(r)) :
                i < j => Observed(r)[i] < Observed(r)[j]

\* C10: when the ACK that completed the handshake of r carried payload, it
\* is the first segment the established socket reads from the
\* per-connection queue: it is at the head of the queue until the first
\* read, and it is the first read.
PayloadAckFirst ==
    \A r \in Remotes :
        (established[r].status # "none" /\ Popped(r).len > 0) =>
            IF reads[r] = <<>>
            THEN conn_queue[r] # <<>> /\ Head(conn_queue[r]).id = hs[r].got
            ELSE reads[r][1] = hs[r].got

\* The elements of a sequence.
Range(s) == { s[i] : i \in 1 .. Len(s) }

\* The handshake coroutine of r has been spawned and has not terminated.
Live(r) == hs[r].pc \in {"send", "wait"}

\* C11 as stated: a remote whose established socket has been returned by
\* do_accept is no longer in the in-flight map, so that no remote is at once
\* in the map and among the connections popped from the ready queue.
OnePlaceAsClaimed ==
    \A r \in Remotes : ~(r \in connections /\ established[r].accepted)

\* C11 amended: a remote whose established socket is on the ready queue or
\* has been returned by do_accept is in the in-flight map, and stays there
\* until the listener has served the close notification of that socket.
EstablishedInMap ==
    \A r \in Remotes :
        (established[r].status = "open" \/ r \in Range(socket_queue)) =>
            r \in connections

\* C11 witness: do_accept has returned the socket of a remote, the socket is
\* open and the remote is in the map.
EstablishedInMapWitness ==
    \E r \in Remotes :
        /\ Result("Ok", r) \in Range(accepted)
        /\ established[r].accepted
        /\ established[r].status = "open"
        /\ r \in connections

\* C12 as stated: every remote in the in-flight map has a handshake
\* coroutine that has not yet terminated.
LiveCoroutineAsClaimed == \A r \in connections : Live(r)

\* C12 amended: for every remote in the in-flight map a handshake coroutine
\* was spawned with the entry, and every handshake coroutine that has not
\* terminated belongs to a remote in the map; the entry outlives the
\* coroutine.
CoroutinePerEntry ==
    \A r \in Remotes :
        /\ r \in connections => hs[r].pc # "none"
        /\ Live(r) => r \in connections

\* C12 witness: the map holds a remote whose coroutine is waiting for the
\* ACK and a remote whose coroutine has terminated.
CoroutinePerEntryWitness ==
    \E r1, r2 \in connections : hs[r1].pc = "wait" /\ hs[r2].pc = "done"

\* The safety part of C13: a step that terminates a coroutine appends
\* exactly its result to the ready queue; the ready queue grows by nothing
\* else; a terminated coroutine takes no further step (its record changes
\* only when a later SYN of the remote is admitted).
PushOnce ==
    [][ /\ \A r \in Remotes :
             /\ (Live(r) /\ hs'[r].pc = "done") =>
                    ready' = Append(ready, Result(hs'[r].result, r))
             /\ hs[r].pc = "done" =>
                    \/ hs'[r] = hs[r]
                    \/ r \notin connections /\ hs'[r].pc = "send"
        /\ Len(ready') > Len(ready) =>
             /\ Len(ready') = Len(ready) + 1
             /\ \E r \in Remotes : Live(r) /\ hs'[r].pc = "done" ]_vars

\* C13: every handshake coroutine that is spawned pushes exactly one Result
\* on the ready queue and then terminates, and under fair scheduling and
\* timer progress it does so eventually, also when the listener is closed
\* while the handshake is in flight.
OneResult ==
    /\ PushOnce
    /\ \A r \in Remotes : Live(r) ~> (hs[r].pc = "done")
    /\ \A r \in Remotes :
         (Live(r) /\ state = "Closed") ~>
             (hs[r].pc = "done" /\ Result(hs[r].result, r) \in Results)

\* C13 witness: the listener is closed and its loop has returned; the
\* coroutine used every retry, pushed its Timeout as the only result and
\* terminated.
OneResultWitness ==
    \E r \in Remotes :
        /\ state = "Closed"
        /\ poll_done
        /\ tcp_config.handshake_retries = MaxRetries
        /\ hs[r].pc = "done"
        /\ hs[r].result = "Timeout"
        /\ ready = <<Result("Timeout", r)>>
        /\ accepted = <<>>

\* The listener serves the head of the socket queue in this step.
ListenerServesClose ==
    socket_queue # <<>> /\ socket_queue' = Tail(socket_queue)

\* C14: while the listener is Listening, every remote an established socket
\* pushed on the socket queue is eventually removed from the in-flight map
\* by the listener loop; the step that serves the notification removes
\* exactly that remote's entry and leaves every other entry, the ready
\* queue and the listener state as they are.
CloseNotification ==
    /\ [][ ListenerServesClose =>
             /\ Head(socket_queue) \in connections
             /\ connections' = connections \ {Head(socket_queue)}
             /\ ready' = ready
             /\ state' = state
             /\ conn_queue' = conn_queue
             /\ hs' = hs ]_vars
    /\ \A r \in Remotes :
         (state = "Listening" /\ r \in Range(socket_queue)) ~>
             (r \notin connections \/ state = "Closed")

\* C14 witness: the listener is Listening, the entry of a closed socket is
\* gone from the map and the entry of another remote is still there.
CloseNotificationWitness ==
    \E r1, r2 \in Remotes :
        /\ state = "Listening"
        /\ established[r1].status = "closed"
        /\ socket_queue = <<>>
        /\ r1 \notin connections
        /\ r2 \in connections

\* C15: once close() has set the state to Closed, no SYN is admitted to the
\* in-flight map, neither one that was waiting in the listener's receive
\* queue when close() returned nor one that arrives later.
NoAdmitAfterClose == [][ state = "Closed" => connections' \subseteq connections ]_vars

\* C16: do_accept returns the results in the order in which the handshake
\* coroutines pushed them: it is suspended while the ready queue is empty,
\* returns the oldest entry and removes it, so that what was returned
\* followed by what is queued is the history of pushes, which only grows
\* at its end.
AcceptFifo ==
    [][ LET pushed == accepted \o ready
            pushed_next == accepted' \o ready'
        IN  /\ accepted' # accepted =>
                 /\ ready # <<>>
                 /\ accepted' = Append(accepted, Head(ready))
                 /\ ready' = Tail(ready)
            /\ Len(pushed_next) \in {Len(pushed), Len(pushed) + 1}
            /\ SubSeq(pushed_next, 1, Len(pushed)) = pushed ]_vars

\* C16 witness: the results of two remotes were pushed; do_accept has
\* returned one of them and the other is still queued.
AcceptFifoWitness ==
    /\ Len(accepted) = 1
    /\ Len(ready) = 1
    /\ accepted[1].remote # ready[1].remote

\* The addresses of a heap that hold a buffer: the outstanding allocations.
Outstanding(heap) == { a \in Addrs : heap[a].live }

\* A call into the memory runtime returns in this step.
Returns(op) == memory'.calls # memory.calls /\ memory'.last.op = op

\* The heap after the step differs from the heap before at address a only.
OnlyChanges(a) ==
    \A b \in Addrs \ {a} : memory'.heap[b] = memory.heap[b]

\* C17: free_sgarray and clone_sgarray called with a scatter-gather array
\* whose segment count is not 1 return EINVAL, release no buffer and copy
\* none: the heap and the sets of arrays and buffers handed out stay as
\* they are.
SgarrayArity ==
    [][ ((Returns("free_sgarray") \/ Returns("clone_sgarray"))
          /\ memory'.last.sga.sga_numsegs # 1) =>
            /\ memory'.last.result = "EINVAL"
            /\ memory'.heap = memory.heap
            /\ memory'.sgas = memory.sgas
            /\ memory'.bufs = memory.bufs ]_vars

\* C17 witness: free_sgarray was called with an array of no segment whose
\* pointer is an outstanding buffer; it returned EINVAL and the buffer is
\* still there.
SgarrayArityWitness ==
    /\ memory.last.op = "free_sgarray"
    /\ memory.last.sga.sga_numsegs = 0
    /\ memory.last.result = "EINVAL"
    /\ memory.heap[memory.last.sga.sgaseg_buf].live

\* Every array and every buffer handed out has a buffer of its own on the
\* heap, of the length it states.
HandlesValid ==
    /\ \A s \in memory.sgas :
         /\ memory.heap[s.sgaseg_buf].live
         /\ Len(memory.heap[s.sgaseg_buf].bytes) = s.sgaseg_len
         /\ s.sgaseg_buf \notin memory.bufs
    /\ \A b \in memory.bufs : memory.heap[b].live

\* What alloc_sgarray, free_sgarray and clone_sgarray do to the heap.
SgarraySteps ==
    [][ LET call == memory'.last
            buf == call.sga.sgaseg_buf
        IN  /\ Returns("alloc_sgarray") =>
                 /\ call.result = "Ok"
                 /\ call.sga.sga_numsegs = 1
                 /\ call.sga.sgaseg_len = call.size
                 /\ Len(memory'.heap[buf].bytes) = call.size
                 /\ buf \notin Outstanding(memory.heap)
                 /\ Outstanding(memory'.heap) =
                      Outstanding(memory.heap) \cup {buf}
                 /\ OnlyChanges(buf)
            /\ (Returns("free_sgarray") /\ call.sga.sga_numsegs = 1) =>
                 /\ call.result = "Ok"
                 /\ buf \in Outstanding(memory.heap)
                 /\ Outstanding(memory'.heap) =
                      Outstanding(memory.heap) \ {buf}
                 /\ OnlyChanges(buf)
            /\ (Returns("clone_sgarray") /\ call.sga.sga_numsegs = 1) =>
                 /\ call.result = "Ok"
                 /\ call.buf # buf
                 /\ call.buf \notin Outstanding(memory.heap)
                 /\ Outstanding(memory'.heap) =
                      Outstanding(memory.heap) \cup {call.buf}
                 /\ memory'.heap[call.buf].bytes = memory.heap[buf].bytes
                 /\ Len(memory'.heap[call.buf].bytes) = call.sga.sgaseg_len
                 /\ OnlyChanges(call.buf)
            /\ Returns("write") => OnlyChanges(buf)
            /\ Returns("drop") => OnlyChanges(call.buf) ]_vars

\* C18: alloc_sgarray(n) returns an array of one segment of length n;
\* free_sgarray of it succeeds and releases exactly its buffer, so that the
\* outstanding allocations are what they were before the alloc;
\* clone_sgarray of it returns a buffer of length n with the same bytes at
\* an address of its own, so that freeing or writing one of the two leaves
\* the other as it is.
SgarrayRoundTrip == []HandlesValid /\ SgarraySteps

\* C18 witness: an array was allocated, written, cloned and freed; the
\* clone is still outstanding and holds the byte written to the original.
SgarrayRoundTripWitness ==
    /\ memory.last.op = "free_sgarray"
    /\ memory.last.result = "Ok"
    /\ memory.sgas = {}
    /\ \E b \in memory.bufs :
         /\ memory.heap[b].live
         /\ Len(memory.heap[b].bytes) = MaxSize
         /\ memory.heap[b].bytes[1] = 1

\* The entry known of ip has outlived the TTL.
KnownExpired(ip) ==
    arp.ttl # NoTtl /\ arp.clock > arp.known[ip].at + arp.ttl

\* C19: in an enabled cache with a TTL, get(ip) of an address inserted with
\* insert(ip, mac) at clock t and not cleared since returns mac while the
\* clock is below t + ttl and None once the clock is past t + ttl.
ArpTtl ==
    (arp.last.op = "get" /\ ~arp.disable /\ arp.ttl # NoTtl
       /\ arp.known[arp.last.ip].how = "insert") =>
        LET known == arp.known[arp.last.ip] IN
        /\ arp.clock < known.at + arp.ttl => arp.last.mac = known.mac
        /\ arp.clock > known.at + arp.ttl => arp.last.mac = NoMac

\* C19 witness: get returned None for an address that was inserted, never
\* cleared, and whose TTL has run out on the cache's clock.
ArpTtlWitness ==
    /\ arp.last.op = "get"
    /\ ~arp.disable
    /\ arp.known[arp.last.ip].how = "insert"
    /\ KnownExpired(arp.last.ip)
    /\ arp.last.mac = NoMac

\* C20: in an enabled cache built with an initial map, get(ip) returns mac
\* for every pair of the map that has not expired (nor been replaced or
\* cleared), and export() holds every pair imported or inserted that has
\* not expired.
ArpImportExport ==
    /\ (arp.last.op = "get" /\ ~arp.disable
          /\ arp.known[arp.last.ip].how = "import"
          /\ ~KnownExpired(arp.last.ip)) =>
            arp.last.mac = arp.known[arp.last.ip].mac
    /\ (arp.last.op = "export" /\ ~arp.disable) =>
            \A ip \in Ips :
                (arp.known[ip].how # "none" /\ ~KnownExpired(ip)) =>
                    /\ ip \in DOMAIN arp.last.map
                    /\ arp.last.map[ip] = arp.known[ip].mac

\* C20 witness: after the clock was advanced, export() returned a map with
\* a pair of the initial map and a pair that was inserted.
ArpImportExportWitness ==
    /\ arp.last.op = "export"
    /\ ~arp.disable
    /\ arp.ttl # NoTtl
    /\ \E ip1, ip2 \in DOMAIN arp.last.map :
         /\ arp.known[ip1].how = "import"
         /\ arp.known[ip2].how = "insert"
         /\ arp.clock > arp.known[ip1].at

\* --------------------------------------------------------------- TcpConfig

\* The field a getter is named after.
FieldOf(name, options) ==
    CASE name = "get_advertised_mss" -> options.advertised_mss
      [] name = "get_handshake_retries" -> options.handshake_retries
      [] name = "get_handshake_timeout" -> options.handshake_timeout
      [] name = "get_receive_window_size" -> options.receive_window_size
      [] name = "get_window_scale" -> options.window_scale
      [] name = "get_ack_delay_timeout" -> options.ack_delay_timeout
      [] name = "get_tx_checksum_offload" -> options.tx_checksum_offload
      [] name = "get_rx_checksum_offload" -> options.rx_checksum_offload

\* C21: a default TcpConfig has advertised_mss = DEFAULT_MSS,
\* handshake_retries = 5, handshake_timeout = 3 seconds, receive_window_size
\* = 0xFFFF, window_scale = 0 and both checksum offloads false; every getter
\* returns the field it is named after, and leaves the descriptor as it was.
DefaultTcpConfig ==
    /\ descriptor.how = "default" =>
         /\ descriptor.status = "Ok"
         /\ descriptor.options.advertised_mss = DEFAULT_MSS
         /\ descriptor.options.handshake_retries = 5
         /\ descriptor.options.handshake_timeout = 3 * 1000
         /\ descriptor.options.receive_window_size = 65535
         /\ descriptor.options.window_scale = 0
         /\ descriptor.options.rx_checksum_offload = FALSE
         /\ descriptor.options.tx_checksum_offload = FALSE
    /\ descriptor.last.name \in Getters =>
         descriptor.last.value = FieldOf(descriptor.last.name,
                                         descriptor.options)
    /\ (descriptor.how = "default" /\ descriptor.last.name \in Getters) =>
         descriptor.last.value =
             CASE descriptor.last.name = "get_advertised_mss" -> DEFAULT_MSS
               [] descriptor.last.name = "get_handshake_retries" -> 5
               [] descriptor.last.name = "get_handshake_timeout" -> 3 * 1000
               [] descriptor.last.name = "get_receive_window_size" -> 65535
               [] descriptor.last.name = "get_window_scale" -> 0
               [] descriptor.last.name = "get_ack_delay_timeout" ->
                      TCP_ACK_DELAY_TIMEOUT
               [] descriptor.last.name = "get_tx_checksum_offload" -> FALSE
               [] descriptor.last.name = "get_rx_checksum_offload" -> FALSE

\* A default descriptor whose handshake_retries getter has been called.
DefaultTcpConfigWitness ==
    /\ descriptor.how = "default"
    /\ descriptor.last.name = "get_handshake_retries"
    /\ descriptor.last.value = 5

\* v clamped into [MIN_MSS, MAX_MSS].
Clamp(v) == IF v < MIN_MSS THEN MIN_MSS ELSE IF v > MAX_MSS THEN MAX_MSS ELSE v

\* C22: for every configured MSS v given to TcpConfig::new, construction
\* succeeds and advertised_mss is v clamped into [MIN_MSS, MAX_MSS].
MssClamped ==
    (descriptor.how = "new" /\ descriptor.mss # NoMss) =>
        /\ descriptor.status = "Ok"
        /\ descriptor.options.advertised_mss = Clamp(descriptor.mss)
        /\ descriptor.options.advertised_mss >= MIN_MSS
        /\ descriptor.options.advertised_mss <= MAX_MSS

\* ------------------------------------------------------------------- timer

\* The futures made by that call.
FuturesVia(via) ==
    { i \in 1 .. Len(timer.futures) : timer.futures[i].via = via }

\* C26: a future made by wait(d) when the clock read t has deadline t + d,
\* the deadline of a future made by wait_until(t + d); whatever advance_clock
\* calls and polls come, it is not complete while the clock is below t + d.
WaitDeadline ==
    /\ \A i \in FuturesVia("wait") :
         LET f == timer.futures[i]
         IN  /\ f.deadline = f.at + f.arg
             /\ f.done => timer.now >= f.at + f.arg
             /\ timer.now < f.at + f.arg => ~f.done
             /\ \A j \in FuturesVia("wait_until") :
                  timer.futures[j].arg = f.at + f.arg =>
                      timer.futures[j].deadline = f.deadline
    /\ \A i \in 1 .. Len(timer.futures) : timer.futures[i].at <= timer.now

\* wait(d) with d > 0 called after the clock had advanced; the future was
\* polled before its deadline, and completed by a later poll.
WaitDeadlineWitness ==
    \E i \in FuturesVia("wait") :
        /\ timer.futures[i].at > 0
        /\ timer.futures[i].arg > 0
        /\ timer.futures[i].polled
        /\ timer.futures[i].done

\* ------------------------------------------------------ failed handshakes

\* The handshake of remote r ended in failure and do_accept has returned it.
FailureReturned(r) ==
    /\ hs[r].pc = "done"
    /\ hs[r].result \in {"Timeout", "BadMessage", "TransmitError"}
    /\ Result(hs[r].result, r) \in Range(accepted)

\* C23: once a handshake has ended in failure (here: and the failure has
\* even been returned by do_accept), the remote has no entry in the
\* in-flight map, so that a later valid SYN of the same remote taken by the
\* listener starts a new handshake (or is refused for the backlog) instead
\* of being forwarded to the old entry's queue.
FailureReleasesEntry ==
    /\ [](\A r \in Remotes : FailureReturned(r) => r \notin connections)
    /\ [][ \A r \in Remotes :
             (/\ FailureReturned(r)
              /\ ListenerTakes
              /\ Head(recv_queue).src = r
              /\ ValidSynFlags(Head(recv_queue)))
             => conn_queue' = conn_queue ]_vars

\* ------------------------------------------------------------- forwarding

\* C24: when the listener takes a segment whose remote is in the in-flight
\* map, whatever the segment's flags, the segment is appended to that
\* remote's per-connection queue; no RST is emitted, no coroutine is spawned
\* or changed, and the map and every other remote's queue stay as they were.
ForwardWhateverFlags ==
    [][ (ListenerTakes /\ Head(recv_queue).src \in connections) =>
          LET seg == Head(recv_queue) IN
            /\ conn_queue'[seg.src] = Append(conn_queue[seg.src], seg)
            /\ \A r \in Remotes \ {seg.src} : conn_queue'[r] = conn_queue[r]
            /\ rsts' = rsts
            /\ hs' = hs
            /\ spawn_failed' = spawn_failed
            /\ connections' = connections
            /\ ready' = ready
            /\ socket_queue' = socket_queue ]_vars

\* A segment with the RST flag lies on the queue of a remote in the map, and
\* no RST has been emitted.
ForwardWhateverFlagsWitness ==
    \E r \in connections :
        /\ rsts = <<>>
        /\ \E i \in 1 .. Len(conn_queue[r]) : conn_queue[r][i].rst

\* ----------------------------------------------------------- SYN with data

\* C25: a valid SYN with payload taken by the listener for a remote without
\* map entry is treated as the same SYN without payload: a RST when the
\* backlog is full; otherwise a map entry, an empty per-connection queue and
\* a handshake coroutine made from the header alone (or nothing at all when
\* the scheduler refuses the coroutine).  The SYN is never on the
\* per-connection queue, never popped by the handshake coroutine and never
\* read by the established socket.
SynPayloadDropped ==
    /\ [](\A r \in Remotes :
            hs[r].syn # 0 =>
                /\ hs[r].got # hs[r].syn
                /\ \A i \in 1 .. Len(Observed(r)) : Observed(r)[i] # hs[r].syn)
    /\ [][ (/\ ListenerTakes
            /\ ValidSynFlags(Head(recv_queue))
            /\ Head(recv_queue).len > 0
            /\ Head(recv_queue).src \notin connections) =>
           LET seg == Head(recv_queue)
               bare == [seg EXCEPT !.len = 0]
           IN  IF BacklogFull
               THEN /\ OneRstTo(seg.src)
                    /\ connections' = connections
                    /\ hs' = hs
                    /\ conn_queue' = conn_queue
               ELSE \/ /\ connections' = connections \cup {seg.src}
                       /\ conn_queue'[seg.src] = <<>>
                       /\ \E local_isn \in env.isns :
                            hs'[seg.src] = NewTask(bare, local_isn)
                       /\ rsts' = rsts
                    \/ /\ seg.id \in spawn_failed'
                       /\ connections' = connections
                       /\ hs' = hs
                       /\ conn_queue' = conn_queue
                       /\ rsts' = rsts ]_vars

\* A connection opened by a SYN with payload is established, and its socket
\* has read a segment.
SynPayloadDroppedWitness ==
    \E r \in Remotes :
        /\ established[r].status = "open"
        /\ SynOf(r).len > 0
        /\ reads[r] # <<>>

\* ------------------------------------------------- the unreachable branch

\* C27: every remote on the socket queue has an entry in the in-flight map,
\* was pushed there by a socket that closed, and is there once; the listener
\* loop therefore never ends in its unreachable branch: it has only ended
\* when the listener was closed.
NoUnreachable ==
    /\ \A i \in 1 .. Len(socket_queue) :
         /\ socket_queue[i] \in connections
         /\ established[socket_queue[i]].status = "closed"
         /\ \A j \in 1 .. Len(socket_queue) :
              socket_queue[j] = socket_queue[i] => j = i
    /\ poll_done => state = "Closed"

\* The loop has served the close notification of a socket and goes on.
NoUnreachableWitness ==
    \E r \in Remotes :
        /\ established[r].status = "closed"
        /\ r \notin Range(socket_queue)
        /\ r \notin connections
        /\ ~poll_done

\* ------------------------------------------- established entries and backlog

\* The remotes whose connection is established, accepted and still open.
OpenAccepted ==
    { r \in Remotes : established[r].status = "open" /\ established[r].accepted }

\* C28: the entry of a remote is in the in-flight map while its socket is
\* established, on the ready queue or accepted, and open; an entry leaves
\* the map only when the listener serves the close notification of its
\* closed socket; and when max_backlog connections are established, accepted
\* and open, a valid SYN of a remote without entry taken by the listener is
\* answered with a RST and changes neither the map nor any coroutine.
EntryHeldWhileOpen ==
    /\ [](\A r \in Remotes : established[r].status = "open" => r \in connections)
    /\ [][ \A r \in connections :
             r \notin connections' =>
                 /\ ListenerServesClose
                 /\ Head(socket_queue) = r
                 /\ established[r].status = "closed" ]_vars
    /\ [][ (/\ ListenerTakes
            /\ ValidSynFlags(Head(recv_queue))
            /\ Head(recv_queue).src \notin connections
            /\ Cardinality(OpenAccepted) = max_backlog) =>
           /\ OneRstTo(Head(recv_queue).src)
           /\ connections' = connections
           /\ conn_queue' = conn_queue
           /\ hs' = hs
           /\ spawn_failed' = spawn_failed ]_vars

\* With max_backlog = 1 the one connection is established, accepted and
\* open, and the SYN of a second remote, which arrived after the ACK that
\* completed the handshake, has been answered with a RST.
EntryHeldWhileOpenWitness ==
    /\ max_backlog = 1
    /\ Cardinality(OpenAccepted) = 1
    /\ \E i \in 1 .. Len(rsts) :
         /\ ValidSynFlags(RstCause(i))
         /\ RstCause(i).src \notin connections
         /\ \A r \in OpenAccepted : hs[r].got < RstCause(i).id

\* ------------------------------------------------------- transmit failure

\* C29: the step in which a handshake gets a transmit error as result is
\* taken where a SYN+ACK is to be sent; it pushes that error on the ready
\* queue and terminates the coroutine, without counting a SYN+ACK as sent
\* and without using a retry; afterwards the coroutine does nothing more: it
\* sends no SYN+ACK, pops no segment, and has this one result.  A coroutine
\* about to send has no third way: it either sends and waits, or fails so.
TransmitFailureEnds ==
    /\ [](\A r \in Remotes :
            hs[r].result = "TransmitError" =>
                /\ hs[r].pc = "done"
                /\ hs[r].got = 0
                /\ established[r].status = "none"
                /\ Cardinality({ i \in 1 .. Len(ready) :
                                   ready[i] = Result("TransmitError", r) })
                     + Cardinality({ i \in 1 .. Len(accepted) :
                                       accepted[i] = Result("TransmitError", r) })
                     = 1)
    /\ [][ \A r \in Remotes :
             (hs'[r].result = "TransmitError" /\ hs[r].result # "TransmitError")
             => /\ hs[r].pc = "send"
                /\ hs'[r] = [hs[r] EXCEPT !.pc = "done",
                                          !.result = "TransmitError"]
                /\ ready' = Append(ready, Result("TransmitError", r))
                /\ conn_queue' = conn_queue ]_vars
    /\ [][ \A r \in Remotes :
             hs[r].result = "TransmitError" => hs'[r] = hs[r] ]_vars
    /\ [][ \A r \in Remotes :
             (hs[r].pc = "send" /\ hs'[r] # hs[r]) =>
                 \/ hs'[r] = [hs[r] EXCEPT !.pc = "done",
                                           !.result = "TransmitError"]
                 \/ hs'[r] = [hs[r] EXCEPT !.pc = "wait", !.synacks = @ + 1]
           ]_vars

\* The transmit failed on a retransmission while retries were left: the
\* coroutine has terminated with the error and the retries unused.
TransmitFailureEndsWitness ==
    \E r \in Remotes :
        /\ hs[r].result = "TransmitError"
        /\ hs[r].synacks >= 1
        /\ hs[r].retries >= 1
        /\ hs[r].pc = "done"

\* ------------------------------------------------ after the listener's exit

\* The identifiers of the segments on a queue.
Ids(queue) == { queue[i].id : i \in 1 .. Len(queue) }

\* A coroutine that was waiting for its ACK with an empty per-connection
\* queue when the listener loop returned ends in this step.
LeftWaitingEnds(r) ==
    hs[r].left_waiting /\ Live(r) /\ hs'[r].pc = "done"

\* C30 as stated: every handshake coroutine that was waiting for its ACK
\* with an empty per-connection queue when the listener loop returned after
\* close() ends by pushing Timeout.
ExitThenTimeout ==
    [][ \A r \in Remotes :
          LeftWaitingEnds(r) =>
              /\ hs'[r].result = "Timeout"
              /\ ready' = Append(ready, Result("Timeout", r)) ]_vars

\* C30 amended: once the listener loop has returned, the receive queue only
\* grows and no per-connection queue gets a segment; a coroutine that was
\* waiting with an empty queue at that moment never pops a segment and never
\* yields a socket; it ends, either by pushing Timeout when its last wait
\* has timed out with no retry left, or by pushing the transmit error of a
\* retransmission of its SYN+ACK.
ExitThenTimeoutOrTransmitError ==
    /\ [][ poll_done =>
             /\ Len(recv_queue') >= Len(recv_queue)
             /\ SubSeq(recv_queue', 1, Len(recv_queue)) = recv_queue
             /\ \A r \in Remotes : Ids(conn_queue'[r]) \subseteq Ids(conn_queue[r])
         ]_vars
    /\ [](\A r \in Remotes :
            hs[r].left_waiting =>
                /\ poll_done
                /\ state = "Closed"
                /\ conn_queue[r] = <<>>
                /\ hs[r].got = 0
                /\ established[r].status = "none"
                /\ hs[r].result \in {"none", "Timeout", "TransmitError"})
    /\ [][ \A r \in Remotes :
             LeftWaitingEnds(r) =>
                 \/ /\ hs[r].pc = "wait"
                    /\ hs[r].retries = 0
                    /\ hs'[r].result = "Timeout"
                    /\ ready' = Append(ready, Result("Timeout", r))
                 \/ /\ hs[r].pc = "send"
                    /\ hs[r].synacks >= 1
                    /\ hs'[r].result = "TransmitError"
                    /\ ready' = Append(ready, Result("TransmitError", r))
         ]_vars
    /\ \A r \in Remotes : hs[r].left_waiting ~> (hs[r].pc = "done")

\* A coroutine that had retries left when the loop returned has pushed
\* Timeout, retries used up, while the peer's correct ACK lies on the
\* listener's receive queue.
ExitThenTimeoutWitness ==
    \E r \in Remotes :
        /\ hs[r].left_waiting
        /\ hs[r].result = "Timeout"
        /\ tcp_config.handshake_retries >= 1
        /\ hs[r].synacks = tcp_config.handshake_retries + 1
        /\ \E i \in 1 .. Len(recv_queue) :
             /\ recv_queue[i].src = r
             /\ recv_queue[i].ack
             /\ recv_queue[i].ack_num = SeqAdd(hs[r].local_isn, 1)

\* ------------------------------------------------- the first popped segment

\* The handshake coroutine of remote r pops a segment in this step.
CoroutinePops(r) ==
    /\ hs[r].pc = "wait"
    /\ conn_queue[r] # <<>>
    /\ hs'[r].got # hs[r].got

\* The segment acknowledges local_isn + 1.
Acknowledges(seg, r) == seg.ack_num = SeqAdd(hs[r].local_isn, 1)

\* The coroutine ends with BadMessage on the segment it pops.
EndsBadMessage(r) ==
    /\ hs'[r].pc = "done"
    /\ hs'[r].result = "BadMessage"
    /\ hs'[r].got = Head(conn_queue[r]).id
    /\ ready' = Append(ready, Result("BadMessage", r))
    /\ established' = established

\* C31 as stated: the ack_num of the first segment the coroutine pops
\* decides alone: when it is local_isn + 1 an established socket is created
\* (and pushed on the ready queue), otherwise BadMessage is pushed, whatever
\* the flags of the segment.
AckNumAloneDecides ==
    [][ \A r \in Remotes :
          CoroutinePops(r) =>
              IF Acknowledges(Head(conn_queue[r]), r)
              THEN /\ hs'[r].pc = "done"
                   /\ established'[r].status = "open"
                   /\ ready' = Append(ready, Result("Ok", r))
              ELSE EndsBadMessage(r) ]_vars

\* C31 amended: the flags of the first popped segment play no part: when its
\* ack_num is not local_isn + 1 BadMessage is pushed; when it is, an
\* established socket is created and pushed, unless the scheduler refuses
\* the socket's background coroutine, and then that error is pushed and no
\* socket exists.
AckNumDecidesUnlessRefused ==
    [][ \A r \in Remotes :
          CoroutinePops(r) =>
              IF Acknowledges(Head(conn_queue[r]), r)
              THEN /\ hs'[r].pc = "done"
                   /\ hs'[r].got = Head(conn_queue[r]).id
                   /\ \/ /\ hs'[r].result = "Ok"
                         /\ established'[r] = NewSocket(hs[r])
                         /\ ready' = Append(ready, Result("Ok", r))
                      \/ /\ hs'[r].result = "SpawnError"
                         /\ established' = established
                         /\ ready' = Append(ready, Result("SpawnError", r))
              ELSE EndsBadMessage(r) ]_vars

\* A retransmitted SYN of the remote in the map, whose ack_num is not
\* local_isn + 1, was the first segment popped: BadMessage.
AckNumDecidesWitness ==
    \E r \in Remotes :
        /\ hs[r].got # 0
        /\ hs[r].got # hs[r].syn
        /\ ValidSynFlags(Popped(r))
        /\ Popped(r).ack_num # SeqAdd(hs[r].local_isn, 1)
        /\ hs[r].result = "BadMessage"

\* ------------------------------------------------------ a refused coroutine

\* C32: the step in which the scheduler refuses the handshake coroutine of
\* a valid SYN that passed the backlog check takes the SYN off the receive
\* queue and changes nothing else: the in-flight map, the per-connection
\* queues, the ready queue and the listener state stay as they are, no
\* coroutine exists that could send a SYN+ACK, no RST is emitted, and the
\* loop goes on.  No refused SYN ever is the SYN of a handshake or the cause
\* of a RST.
SpawnRefusedLeavesNoTrace ==
    /\ [][ spawn_failed' # spawn_failed =>
             /\ ListenerTakes
             /\ ValidSynFlags(Head(recv_queue))
             /\ Head(recv_queue).src \notin connections
             /\ Cardinality(connections) < max_backlog
             /\ spawn_failed' = spawn_failed \cup {Head(recv_queue).id}
             /\ connections' = connections
             /\ conn_queue' = conn_queue
             /\ ready' = ready
             /\ state' = state
             /\ hs' = hs
             /\ established' = established
             /\ rsts' = rsts
             /\ socket_queue' = socket_queue
             /\ poll_done' = poll_done
             /\ ~poll_done ]_vars
    /\ [](\A id \in spawn_failed :
            /\ \A r \in Remotes : hs[r].syn # id
            /\ \A i \in 1 .. Len(rsts) : rsts[i].re # id)

\* After the coroutine of one SYN was refused, a SYN that arrived later has
\* been admitted and its SYN+ACK sent.
SpawnRefusedLeavesNoTraceWitness ==
    \E id \in spawn_failed, r \in connections :
        /\ hs[r].syn > id
        /\ hs[r].synacks >= 1
        /\ ~poll_done

====
